---------------------------- MODULE Spec2Model ----------------------------
(***************************************************************************)
(* A model of the concurrency core of the bustub storage engine:           *)
(*   - the Lock Manager (LockTable / UnlockTable / LockRow / UnlockRow,    *)
(*     GrantLock, the deadlock detector), from lock_manager.cpp;           *)
(*   - the latching of the B+Tree lookups (GetValue, Begin(key) and the    *)
(*     SEARCH descent of FindLeafPageCon) and of the index iterator, and   *)
(*     the B+Tree as Insert and Remove leave it, from b_plus_tree.cpp.     *)
(* Every transaction is driven by one thread.  The code a thread runs      *)
(* while it owns a queue's latch_ is one action; a thread blocked in       *)
(* cv_.wait is resumed by a separate action.                               *)
(***************************************************************************)
EXTENDS Integers, Sequences, FiniteSets, Bags, TLC

(***************************************************************************)
(* Bounds of the model.                                                    *)
(***************************************************************************)
MaxTxn == 3          \* transactions of the queue specification: ids 1..MaxTxn
MaxDlTxn == 4        \* transactions of the deadlock specification
MaxDlTable == 2      \* tables of the deadlock specification: oids 0..MaxDlTable
MaxShTable == 1      \* tables of the shared-lock deadlock specification
MaxRowTxn == 2       \* transactions of the row-lock specification
MaxPhaseTxn == 2     \* transactions of the phase specification
MaxThread == 2       \* threads that call the B+ tree
MaxKey == 7          \* the keys 0..MaxKey are looked up
MaxRootReads == 2    \* read holds of the root latch a thread piles up
MaxWrKey == 6        \* Insert and Remove are called with the keys 1..MaxWrKey
MinLeafMaxSize == 3  \* the tree is constructed with a leaf_max_size of
MaxLeafMaxSize == 4  \*   MinLeafMaxSize..MaxLeafMaxSize
internal_max_size_ == 3  \* BPlusTree::internal_max_size_
MaxOomPage == 7     \* the same, in the out-of-memory specification
MaxPageId == 9      \* page ids the buffer pool hands out before NewPage fails
MaxDupKey == 2       \* keys of the specification that inserts a key with two values
MaxDupPageId == 3    \* page ids of that specification
MaxPoolKey == 5      \* keys of the buffer-pool specification
MaxPoolPage == 7     \* page ids of that specification
MaxConKey == 3       \* keys of the specification of lookups beside the writer
MaxConPage == 5      \* page ids of that specification
MaxLatchPage == 3    \* page ids of the latch specification

INVALID_TXN_ID == -1

AllTxns == 1..(IF MaxTxn > MaxDlTxn THEN MaxTxn ELSE MaxDlTxn)
AllTables == 0..MaxDlTable
AllRows == {0}
Tbl(oid) == <<"table", oid>>
Row(rid) == <<"row", rid>>
AllObjs == {Tbl(oid) : oid \in AllTables} \cup {Row(rid) : rid \in AllRows}
NoObj == <<"none", 0>>
\* the table a row belongs to (the oid the caller passes with the rid)
RowTable(rid) == 0

LockModes == {"IS", "IX", "S", "SIX", "X"}
IsolationLevels == {"READ_UNCOMMITTED", "READ_COMMITTED", "REPEATABLE_READ"}

VARIABLES
  txn_state,        \* Transaction::state_
  isolation,        \* Transaction::isolation_level_
  table_lock_set,   \* the five table lock sets of each transaction
  row_lock_set,     \* the two row lock sets (S, X) of each transaction
  lock_map,         \* objects that have a queue in table_lock_map_ / row_lock_map_
  request_queue_,   \* LockRequestQueue::request_queue_ of every object
  upgrading_,       \* LockRequestQueue::upgrading_ of every object
  waiting,          \* the object whose cv_ the thread is blocked on, or NoObj
  wait_upgrade,     \* the blocked call is in the upgrade branch
  notified,         \* cv_.notify_all reached the blocked thread
  last_result,      \* outcome of the thread's last lock-manager call
  arrival,          \* ghost: the transactions of each queue in order of entry
  unlocked_sx,      \* ghost: UnlockTable or UnlockRow has released an S or X lock of
                    \* the transaction
  waits_for_,       \* detector: wait-for graph
  txn_set_,         \* detector: nodes of the graph
  map_txn_obj,      \* detector: map_txn_oid_ / map_txn_rid_
  det_pc,           \* detector: "sleep", "build" or "cycles"
  det_todo,         \* detector: the queues the build loop has still to read
  built_graph,      \* ghost: the graph as the build loop of the running pass left it
  last_victim,      \* ghost: victim and active_set_ of the pass's last HasCycle
  root_page_id_,    \* BPlusTree::root_page_id_
  pages,            \* the tree pages of the buffer pool, by page id
  root_rlock,       \* read holds of root_page_id_latch_, per thread
  rlatch,           \* the pages each thread holds read-latched
  rd_pc,            \* the place of each thread in its tree call
  rd_op,            \* the tree call of each thread
  rd_key,           \* the key of the call
  rd_page,          \* FindLeafPageCon: pagec
  rd_result,        \* what the thread's last tree call returned
  rd_index,         \* IndexIterator::idx_ of the iterator the thread holds
  rd_seen,          \* ghost: the keys operator* of the thread's iterator has returned
  pin_count_,       \* Page::pin_count_ of the pages of the buffer pool (a bag of page ids)
  next_page_id_,    \* the page id the next NewPage hands out
  leaf_max_size_,   \* BPlusTree::leaf_max_size_
  wr_call,          \* the last call of the writer (Insert, Remove) and what it returned
  header_calls,     \* the calls of the header page the last call of the writer made
  root_acquired,    \* ghost: StartNewTree has run on this tree
  wr_delete,        \* ghost: the last call of the writer called DeletePage, and the
                    \* latches the thread held at those calls
  wr_pc,            \* the place of the writer in a Remove call that goes step by step:
                    \* "idle", or "sibling" before siblingoriginalpage->WLatch()
  wr_key,           \* the key of that call
  wlatch,           \* the latches the writer holds there: page ids, nullptr for
                    \* root_page_id_latch_
  wr_wait,          \* the page whose latch the writer asks for there
  wr_unlatched,     \* ghost: the pages of the tree whose parent_page_id_ the last call
                    \* of the writer wrote without holding their write latch
  latest            \* ghost, per key: the value of the latest successful Insert that no
                    \* Remove of the key has followed (a set of one or no value), and
                    \* the number of successful Inserts that no Remove has answered yet

lm_vars == <<txn_state, isolation, table_lock_set, row_lock_set, lock_map,
             request_queue_, upgrading_, waiting, wait_upgrade, notified,
             last_result, arrival, unlocked_sx>>
det_vars == <<waits_for_, txn_set_, map_txn_obj, det_pc, det_todo, built_graph,
              last_victim>>
wr_vars == <<next_page_id_, leaf_max_size_, wr_call, header_calls, root_acquired, wr_delete,
             wr_pc, wr_key, wlatch, wr_wait, wr_unlatched, latest>>
it_vars == <<rd_seen>>
tree_vars == <<root_page_id_, pages, root_rlock, rlatch, rd_pc, rd_op, rd_key, rd_page,
               rd_result, rd_index, pin_count_, wr_vars, it_vars>>
vars == <<lm_vars, det_vars, tree_vars>>

(***************************************************************************)
(* Helpers on sequences and sets.                                          *)
(***************************************************************************)
Max(S) == CHOOSE x \in S : \A y \in S : y <= x
Min(S) == CHOOSE x \in S : \A y \in S : x <= y

RECURSIVE SortedSeq(_)
SortedSeq(S) == IF S = {} THEN <<>> ELSE <<Min(S)>> \o SortedSeq(S \ {Min(S)})

RemoveAt(q, i) == SubSeq(q, 1, i - 1) \o SubSeq(q, i + 1, Len(q))
InsertAt(q, i, e) == SubSeq(q, 1, i - 1) \o <<e>> \o SubSeq(q, i, Len(q))

\* the first of the indices I of q, or Len(q)+1 when there is none
FirstIdx(q, I) == IF I # {} THEN Min(I) ELSE Len(q) + 1

(***************************************************************************)
(* GrantLock: the compatibility tests and the FIFO rule.                   *)
(***************************************************************************)
\* a faulty variant of Compatible: a held S lets IX through
CompatibleSharedLax(held, req) ==
  CASE held = "IS"  -> req # "X"
    [] held = "IX"  -> req \notin {"S", "SIX", "X"}
    [] held = "S"   -> req \notin {"SIX", "X"}
    [] held = "SIX" -> req \notin {"IX", "S", "SIX", "X"}
    [] held = "X"   -> FALSE

\* a granted request of mode held lets a request of mode req through
Compatible(held, req) ==
  CASE held = "IS"  -> req # "X"
    [] held = "IX"  -> req \notin {"S", "SIX", "X"}
    [] held = "S"   -> req \notin {"IX", "SIX", "X"}
    [] held = "SIX" -> req \notin {"IX", "S", "SIX", "X"}
    [] held = "X"   -> FALSE

\* a faulty variant of GrantScan: waiting requests are passed over, a request
\* compatible with every request ahead of it and with every granted one goes through
GrantScanBatch(q, i, me) ==
  \A k \in 1..Len(q) :
     (k # me /\ (q[k].granted_ \/ k < me)) => Compatible(q[k].lock_mode_, q[me].lock_mode_)

\* the loop over request_queue_: me is the position of lock_request
RECURSIVE GrantScan(_, _, _)
GrantScan(q, i, me) ==
  IF i > Len(q) THEN FALSE
  ELSE IF q[i].granted_
    THEN IF ~Compatible(q[i].lock_mode_, q[me].lock_mode_) THEN FALSE
         ELSE GrantScan(q, i + 1, me)
  ELSE IF i # me THEN FALSE
  ELSE TRUE

GrantLock(q, me, upg) ==
  IF upg # INVALID_TXN_ID /\ upg # q[me].txn_id_ THEN FALSE
  ELSE GrantScan(q, 1, me)

\* a faulty variant of CanUpgrade: S may become IX
CanUpgradeSharedToIntent(old, new) ==
  \/ old = "IS" /\ new \in {"S", "X", "IX", "SIX"}
  \/ old = "S" /\ new \in {"X", "SIX", "IX"}
  \/ old = "IX" /\ new \in {"X", "SIX"}
  \/ old = "SIX" /\ new = "X"

\* the upgrade matrix of LockTable / LockRow
CanUpgrade(old, new) ==
  \/ old = "IS" /\ new \in {"S", "X", "IX", "SIX"}
  \/ old = "S" /\ new \in {"X", "SIX"}
  \/ old = "IX" /\ new \in {"X", "SIX"}
  \/ old = "SIX" /\ new = "X"

(***************************************************************************)
(* The transaction's held-lock sets.                                       *)
(***************************************************************************)
InsertOrDeleteTableLockSet(tls, t, mode, oid, insert) ==
  [tls EXCEPT ![t][mode] = IF insert THEN @ \cup {oid} ELSE @ \ {oid}]

InsertOrDeleteRowLockSet(rls, t, mode, rid, insert) ==
  IF mode \in {"S", "X"}
    THEN [rls EXCEPT ![t][mode] = IF insert THEN @ \cup {rid} ELSE @ \ {rid}]
    ELSE rls

\* a faulty variant of IsolationCheck: Repeatable-Read is treated as
\* Read-Committed, a shrinking transaction may take IS and S
IsolationCheckSharedLate(t, mode) ==
  IF isolation[t] = "READ_UNCOMMITTED" /\ mode \in {"S", "IS", "SIX"}
    THEN "LOCK_SHARED_ON_READ_UNCOMMITTED"
  ELSE IF isolation[t] = "READ_UNCOMMITTED" /\ txn_state[t] = "SHRINKING"
          /\ mode \in {"X", "IX"}
    THEN "LOCK_ON_SHRINKING"
  ELSE IF isolation[t] \in {"READ_COMMITTED", "REPEATABLE_READ"}
          /\ txn_state[t] = "SHRINKING" /\ mode \notin {"IS", "S"}
    THEN "LOCK_ON_SHRINKING"
  ELSE "ok"

\* a faulty variant of IsolationCheck: under Read-Uncommitted the shared modes
\* are refused to a shrinking transaction only
IsolationCheckSharedWhileGrowing(t, mode) ==
  IF isolation[t] = "READ_UNCOMMITTED" /\ txn_state[t] = "SHRINKING"
       /\ mode \in {"S", "IS", "SIX"}
    THEN "LOCK_SHARED_ON_READ_UNCOMMITTED"
  ELSE IF isolation[t] = "READ_UNCOMMITTED" /\ txn_state[t] = "SHRINKING"
          /\ mode \in {"X", "IX"}
    THEN "LOCK_ON_SHRINKING"
  ELSE IF isolation[t] = "READ_COMMITTED" /\ txn_state[t] = "SHRINKING"
          /\ mode \notin {"IS", "S"}
    THEN "LOCK_ON_SHRINKING"
  ELSE IF isolation[t] = "REPEATABLE_READ" /\ txn_state[t] = "SHRINKING"
    THEN "LOCK_ON_SHRINKING"
  ELSE "ok"

\* the isolation-level checks that open LockTable and LockRow:
\* the abort reason, or "ok"
IsolationCheck(t, mode) ==
  IF isolation[t] = "READ_UNCOMMITTED" /\ mode \in {"S", "IS", "SIX"}
    THEN "LOCK_SHARED_ON_READ_UNCOMMITTED"
  ELSE IF isolation[t] = "READ_UNCOMMITTED" /\ txn_state[t] = "SHRINKING"
          /\ mode \in {"X", "IX"}
    THEN "LOCK_ON_SHRINKING"
  ELSE IF isolation[t] = "READ_COMMITTED" /\ txn_state[t] = "SHRINKING"
          /\ mode \notin {"IS", "S"}
    THEN "LOCK_ON_SHRINKING"
  ELSE IF isolation[t] = "REPEATABLE_READ" /\ txn_state[t] = "SHRINKING"
    THEN "LOCK_ON_SHRINKING"
  ELSE "ok"

\* a faulty variant of TableLockCheck: any table lock admits a row X lock
TableLockCheckAnyMode(t, mode, oid) ==
  IF \A m \in LockModes : oid \notin table_lock_set[t][m]
    THEN "TABLE_LOCK_NOT_PRESENT"
    ELSE "ok"

\* the table-lock test of LockRow: the abort reason, or "ok"
TableLockCheck(t, mode, oid) ==
  IF mode = "X" /\ oid \notin table_lock_set[t]["X"] /\ oid \notin table_lock_set[t]["IX"]
       /\ oid \notin table_lock_set[t]["SIX"]
    THEN "TABLE_LOCK_NOT_PRESENT"
  ELSE IF mode = "S" /\ \A m \in LockModes : oid \notin table_lock_set[t][m]
    THEN "TABLE_LOCK_NOT_PRESENT"
  ELSE "ok"

\* a faulty variant of StateAfterUnlock: the release of S ends the growing
\* phase under Read-Committed too
StateAfterUnlockShared(t, mode) ==
  IF /\ \/ isolation[t] \in {"REPEATABLE_READ", "READ_COMMITTED"} /\ mode \in {"X", "S"}
        \/ isolation[t] = "READ_UNCOMMITTED" /\ mode = "X"
     /\ txn_state[t] \notin {"COMMITTED", "ABORTED"}
    THEN "SHRINKING"
    ELSE txn_state[t]

\* the state an unlock leaves the transaction in
StateAfterUnlock(t, mode) ==
  IF /\ \/ isolation[t] = "REPEATABLE_READ" /\ mode \in {"X", "S"}
        \/ isolation[t] = "READ_COMMITTED" /\ mode = "X"
        \/ isolation[t] = "READ_UNCOMMITTED" /\ mode = "X"
     /\ txn_state[t] \notin {"COMMITTED", "ABORTED"}
    THEN "SHRINKING"
    ELSE txn_state[t]

\* a faulty variant of NotifyAll, cv_.notify_one(): one of the blocked threads
\* is woken, here the one with the greatest id
NotifyOne(ntf, wtg, o) ==
  [t \in AllTxns |-> ntf[t] \/ (wtg[t] = o /\ \A u \in AllTxns : wtg[u] = o => u <= t)]

\* cv_.notify_all() of object o, as seen by the blocked threads
NotifyAll(ntf, wtg, o) == [t \in AllTxns |-> ntf[t] \/ wtg[t] = o]

IsTable(o) == o[1] = "table"

UpdateLockSets(t, o, del, ins) ==
  IF IsTable(o)
    THEN /\ table_lock_set' =
              LET a == IF del = "none" THEN table_lock_set
                       ELSE InsertOrDeleteTableLockSet(table_lock_set, t, del, o[2], FALSE)
              IN IF ins = "none" THEN a
                 ELSE InsertOrDeleteTableLockSet(a, t, ins, o[2], TRUE)
         /\ UNCHANGED row_lock_set
    ELSE /\ row_lock_set' =
              LET a == IF del = "none" THEN row_lock_set
                       ELSE InsertOrDeleteRowLockSet(row_lock_set, t, del, o[2], FALSE)
              IN IF ins = "none" THEN a
                 ELSE InsertOrDeleteRowLockSet(a, t, ins, o[2], TRUE)
         /\ UNCHANGED table_lock_set

Ungranted(r) == ~r.granted_
\* a faulty variant of UpgradePos: the upgrade request goes to the back
UpgradePosBack(q) == Len(q) + 1

\* where the upgrade request goes: before the first ungranted request
UpgradePos(q) == FirstIdx(q, {k \in 1..Len(q) : Ungranted(q[k])})
NewRequest(t, mode) == [txn_id_ |-> t, lock_mode_ |-> mode, granted_ |-> FALSE]
DropTxn(s, t) == SelectSeq(s, LAMBDA x : x # t)

\* the call ends by throwing after SetState(ABORTED)
AbortWith(t, reason) ==
  /\ txn_state' = [txn_state EXCEPT ![t] = "ABORTED"]
  /\ last_result' = [last_result EXCEPT ![t] = reason]

(***************************************************************************)
(* LockTable / LockRow from the queue lookup on: the scan for a request    *)
(* of the same transaction, the upgrade, the enqueue and the first pass    *)
(* of the wait loop.                                                       *)
(***************************************************************************)
\* the request at position pos of q is granted at once, or the thread blocks
EnterQueue(t, mode, o, q, pos, isUpgrade, oldMode) ==
  IF GrantLock(q, pos, IF isUpgrade THEN t ELSE upgrading_[o])
    THEN /\ request_queue_' = [request_queue_ EXCEPT ![o] = [q EXCEPT ![pos].granted_ = TRUE]]
         /\ upgrading_' = IF isUpgrade THEN [upgrading_ EXCEPT ![o] = INVALID_TXN_ID]
                          ELSE upgrading_
         /\ UpdateLockSets(t, o, oldMode, mode)
         /\ notified' = IF mode # "X" THEN NotifyAll(notified, waiting, o) ELSE notified
         /\ last_result' = [last_result EXCEPT ![t] = "true"]
         /\ UNCHANGED <<txn_state, waiting, wait_upgrade>>
    ELSE /\ request_queue_' = [request_queue_ EXCEPT ![o] = q]
         /\ upgrading_' = IF isUpgrade THEN [upgrading_ EXCEPT ![o] = t] ELSE upgrading_
         /\ UpdateLockSets(t, o, oldMode, "none")
         /\ waiting' = [waiting EXCEPT ![t] = o]
         /\ wait_upgrade' = [wait_upgrade EXCEPT ![t] = isUpgrade]
         /\ notified' = [notified EXCEPT ![t] = FALSE]
         /\ last_result' = [last_result EXCEPT ![t] = "blocked"]
         /\ UNCHANGED txn_state

\* a faulty variant of Acquire: upgrading_ is not tested before the upgrade
AcquireOverUpgrade(t, mode, o) ==
  LET q == request_queue_[o]
      mine == {i \in 1..Len(q) : q[i].txn_id_ = t}
  IN /\ lock_map' = lock_map \cup {o}
     /\ IF mine # {}
          THEN LET i == Min(mine)
                   old == q[i].lock_mode_
               IN IF old = mode
                    THEN /\ last_result' = [last_result EXCEPT ![t] = "true"]
                         /\ UNCHANGED <<txn_state, table_lock_set, row_lock_set, request_queue_,
                                        upgrading_, waiting, wait_upgrade, notified, arrival>>
                  ELSE IF ~CanUpgrade(old, mode)
                    THEN /\ AbortWith(t, "INCOMPATIBLE_UPGRADE")
                         /\ UNCHANGED <<table_lock_set, row_lock_set, request_queue_,
                                        upgrading_, waiting, wait_upgrade, notified, arrival>>
                  ELSE LET q1 == RemoveAt(q, i)
                           pos == UpgradePos(q1)
                           q2 == InsertAt(q1, pos, NewRequest(t, mode))
                       IN /\ EnterQueue(t, mode, o, q2, pos, TRUE, old)
                          /\ arrival' = [arrival EXCEPT ![o] = Append(DropTxn(@, t), t)]
          ELSE LET q2 == Append(q, NewRequest(t, mode))
               IN /\ EnterQueue(t, mode, o, q2, Len(q2), FALSE, "none")
                  /\ arrival' = [arrival EXCEPT ![o] = Append(@, t)]

Acquire(t, mode, o) ==
  LET q == request_queue_[o]
      mine == {i \in 1..Len(q) : q[i].txn_id_ = t}
  IN /\ lock_map' = lock_map \cup {o}
     /\ IF mine # {}
          THEN LET i == Min(mine)
                   old == q[i].lock_mode_
               IN IF old = mode
                    THEN /\ last_result' = [last_result EXCEPT ![t] = "true"]
                         /\ UNCHANGED <<txn_state, table_lock_set, row_lock_set, request_queue_,
                                        upgrading_, waiting, wait_upgrade, notified, arrival>>
                  ELSE IF upgrading_[o] # INVALID_TXN_ID
                    THEN /\ AbortWith(t, "UPGRADE_CONFLICT")
                         /\ UNCHANGED <<table_lock_set, row_lock_set, request_queue_,
                                        upgrading_, waiting, wait_upgrade, notified, arrival>>
                  ELSE IF ~CanUpgrade(old, mode)
                    THEN /\ AbortWith(t, "INCOMPATIBLE_UPGRADE")
                         /\ UNCHANGED <<table_lock_set, row_lock_set, request_queue_,
                                        upgrading_, waiting, wait_upgrade, notified, arrival>>
                  ELSE LET q1 == RemoveAt(q, i)
                           pos == UpgradePos(q1)
                           q2 == InsertAt(q1, pos, NewRequest(t, mode))
                       IN /\ EnterQueue(t, mode, o, q2, pos, TRUE, old)
                          /\ arrival' = [arrival EXCEPT ![o] = Append(DropTxn(@, t), t)]
          ELSE LET q2 == Append(q, NewRequest(t, mode))
               IN /\ EnterQueue(t, mode, o, q2, Len(q2), FALSE, "none")
                  /\ arrival' = [arrival EXCEPT ![o] = Append(@, t)]

\* a faulty variant of LockTable: the state of the transaction is not tested
\* for COMMITTED and ABORTED
LockTableOfTerminal(t, mode, oid) ==
  /\ waiting[t] = NoObj
  /\ UNCHANGED <<isolation, unlocked_sx, det_vars, tree_vars>>
  /\ IF IsolationCheck(t, mode) # "ok"
       THEN /\ AbortWith(t, IsolationCheck(t, mode))
            /\ UNCHANGED <<table_lock_set, row_lock_set, lock_map, request_queue_,
                           upgrading_, waiting, wait_upgrade, notified, arrival>>
     ELSE det_pc # "build" /\ Acquire(t, mode, Tbl(oid))

LockTable(t, mode, oid) ==
  /\ waiting[t] = NoObj
  /\ UNCHANGED <<isolation, unlocked_sx, det_vars, tree_vars>>
  /\ IF txn_state[t] \in {"ABORTED", "COMMITTED"}
       THEN /\ last_result' = [last_result EXCEPT ![t] = "exception"]
            /\ UNCHANGED <<txn_state, table_lock_set, row_lock_set, lock_map, request_queue_,
                           upgrading_, waiting, wait_upgrade, notified, arrival>>
     ELSE IF IsolationCheck(t, mode) # "ok"
       THEN /\ AbortWith(t, IsolationCheck(t, mode))
            /\ UNCHANGED <<table_lock_set, row_lock_set, lock_map, request_queue_,
                           upgrading_, waiting, wait_upgrade, notified, arrival>>
     ELSE det_pc # "build" /\ Acquire(t, mode, Tbl(oid))

LockRow(t, mode, oid, rid) ==
  /\ waiting[t] = NoObj
  /\ UNCHANGED <<isolation, unlocked_sx, det_vars, tree_vars>>
  /\ IF txn_state[t] \in {"ABORTED", "COMMITTED"}
       THEN /\ last_result' = [last_result EXCEPT ![t] = "exception"]
            /\ UNCHANGED <<txn_state, table_lock_set, row_lock_set, lock_map, request_queue_,
                           upgrading_, waiting, wait_upgrade, notified, arrival>>
     ELSE IF mode \in {"IX", "IS", "SIX"}
       THEN /\ AbortWith(t, "ATTEMPTED_INTENTION_LOCK_ON_ROW")
            /\ UNCHANGED <<table_lock_set, row_lock_set, lock_map, request_queue_,
                           upgrading_, waiting, wait_upgrade, notified, arrival>>
     ELSE IF IsolationCheck(t, mode) # "ok"
       THEN /\ AbortWith(t, IsolationCheck(t, mode))
            /\ UNCHANGED <<table_lock_set, row_lock_set, lock_map, request_queue_,
                           upgrading_, waiting, wait_upgrade, notified, arrival>>
     ELSE IF TableLockCheck(t, mode, oid) # "ok"
       THEN /\ AbortWith(t, TableLockCheck(t, mode, oid))
            /\ UNCHANGED <<table_lock_set, row_lock_set, lock_map, request_queue_,
                           upgrading_, waiting, wait_upgrade, notified, arrival>>
     ELSE det_pc # "build" /\ Acquire(t, mode, Row(rid))

(***************************************************************************)
(* A thread blocked in cv_.wait owns the latch again: the test of the      *)
(* transaction's state, then the next pass of the wait loop.               *)
(***************************************************************************)
\* a faulty variant of Resume: a thread that finds its transaction ABORTED
\* returns false and leaves its request in the queue
ResumeLeavingRequest(t) ==
  LET o == waiting[t]
      q == request_queue_[o]
      me == FirstIdx(q, {k \in 1..Len(q) : q[k].txn_id_ = t /\ ~q[k].granted_})
      mode == q[me].lock_mode_
  IN /\ UNCHANGED <<isolation, unlocked_sx, lock_map, det_vars, tree_vars>>
     /\ IF txn_state[t] = "ABORTED"
          THEN /\ upgrading_' = IF wait_upgrade[t] THEN [upgrading_ EXCEPT ![o] = INVALID_TXN_ID]
                                ELSE upgrading_
               /\ waiting' = [waiting EXCEPT ![t] = NoObj]
               /\ wait_upgrade' = [wait_upgrade EXCEPT ![t] = FALSE]
               /\ notified' = [NotifyAll(notified, waiting', o) EXCEPT ![t] = FALSE]
               /\ last_result' = [last_result EXCEPT ![t] = "false"]
               /\ UNCHANGED <<txn_state, table_lock_set, row_lock_set, request_queue_, arrival>>
        ELSE IF GrantLock(q, me, upgrading_[o])
          THEN /\ upgrading_' = IF wait_upgrade[t] THEN [upgrading_ EXCEPT ![o] = INVALID_TXN_ID]
                                ELSE upgrading_
               /\ request_queue_' = [request_queue_ EXCEPT ![o] = [q EXCEPT ![me].granted_ = TRUE]]
               /\ UpdateLockSets(t, o, "none", mode)
               /\ waiting' = [waiting EXCEPT ![t] = NoObj]
               /\ wait_upgrade' = [wait_upgrade EXCEPT ![t] = FALSE]
               /\ notified' = [(IF mode # "X" THEN NotifyAll(notified, waiting', o) ELSE notified)
                                 EXCEPT ![t] = FALSE]
               /\ last_result' = [last_result EXCEPT ![t] = "true"]
               /\ UNCHANGED <<txn_state, arrival>>
        ELSE /\ notified' = [notified EXCEPT ![t] = FALSE]
             /\ UNCHANGED <<txn_state, table_lock_set, row_lock_set, request_queue_, upgrading_,
                            waiting, wait_upgrade, last_result, arrival>>

Resume(t) ==
  LET o == waiting[t]
      q == request_queue_[o]
      me == FirstIdx(q, {k \in 1..Len(q) : q[k].txn_id_ = t /\ ~q[k].granted_})
      mode == q[me].lock_mode_
  IN /\ UNCHANGED <<isolation, unlocked_sx, lock_map, det_vars, tree_vars>>
     /\ IF txn_state[t] = "ABORTED"
          THEN /\ upgrading_' = IF wait_upgrade[t] THEN [upgrading_ EXCEPT ![o] = INVALID_TXN_ID]
                                ELSE upgrading_
               /\ request_queue_' = [request_queue_ EXCEPT ![o] = RemoveAt(q, me)]
               /\ arrival' = [arrival EXCEPT ![o] = DropTxn(@, t)]
               /\ waiting' = [waiting EXCEPT ![t] = NoObj]
               /\ wait_upgrade' = [wait_upgrade EXCEPT ![t] = FALSE]
               /\ notified' = [NotifyAll(notified, waiting', o) EXCEPT ![t] = FALSE]
               /\ last_result' = [last_result EXCEPT ![t] = "false"]
               /\ UNCHANGED <<txn_state, table_lock_set, row_lock_set>>
        ELSE IF GrantLock(q, me, upgrading_[o])
          THEN /\ upgrading_' = IF wait_upgrade[t] THEN [upgrading_ EXCEPT ![o] = INVALID_TXN_ID]
                                ELSE upgrading_
               /\ request_queue_' = [request_queue_ EXCEPT ![o] = [q EXCEPT ![me].granted_ = TRUE]]
               /\ UpdateLockSets(t, o, "none", mode)
               /\ waiting' = [waiting EXCEPT ![t] = NoObj]
               /\ wait_upgrade' = [wait_upgrade EXCEPT ![t] = FALSE]
               /\ notified' = [(IF mode # "X" THEN NotifyAll(notified, waiting', o) ELSE notified)
                                 EXCEPT ![t] = FALSE]
               /\ last_result' = [last_result EXCEPT ![t] = "true"]
               /\ UNCHANGED <<txn_state, arrival>>
        ELSE /\ notified' = [notified EXCEPT ![t] = FALSE]
             /\ UNCHANGED <<txn_state, table_lock_set, row_lock_set, request_queue_, upgrading_,
                            waiting, wait_upgrade, last_result, arrival>>

\* woken by notify_all
Wake(t) == waiting[t] # NoObj /\ notified[t] /\ Resume(t)
\* cv_.wait may return without a notification
SpuriousWake(t) == waiting[t] # NoObj /\ ~notified[t] /\ Resume(t)

(***************************************************************************)
(* UnlockTable / UnlockRow.                                                *)
(***************************************************************************)
Release(t, o) ==
  LET q == request_queue_[o]
      i == FirstIdx(q, {k \in 1..Len(q) : q[k].txn_id_ = t /\ q[k].granted_})
  IN IF i <= Len(q)
       THEN /\ request_queue_' = [request_queue_ EXCEPT ![o] = RemoveAt(q, i)]
            /\ arrival' = [arrival EXCEPT ![o] = DropTxn(@, t)]
            /\ notified' = NotifyAll(notified, waiting, o)
            /\ txn_state' = [txn_state EXCEPT ![t] = StateAfterUnlock(t, q[i].lock_mode_)]
            /\ UpdateLockSets(t, o, q[i].lock_mode_, "none")
            /\ last_result' = [last_result EXCEPT ![t] = "true"]
            /\ unlocked_sx' = [unlocked_sx EXCEPT ![t] = @ \/ q[i].lock_mode_ \in {"S", "X"}]
       ELSE /\ AbortWith(t, "ATTEMPTED_UNLOCK_BUT_NO_LOCK_HELD")
            /\ UNCHANGED <<table_lock_set, row_lock_set, request_queue_, notified, arrival,
                           unlocked_sx>>

\* a faulty variant of UnlockTable: the row locks of the table are not looked at
UnlockTableOverRows(t, oid) ==
  /\ waiting[t] = NoObj
  /\ det_pc # "build"
  /\ UNCHANGED <<isolation, lock_map, upgrading_, waiting, wait_upgrade, det_vars, tree_vars>>
  /\ IF Tbl(oid) \notin lock_map
       THEN /\ AbortWith(t, "ATTEMPTED_UNLOCK_BUT_NO_LOCK_HELD")
            /\ UNCHANGED <<table_lock_set, row_lock_set, request_queue_, notified, arrival,
                           unlocked_sx>>
       ELSE Release(t, Tbl(oid))

UnlockTable(t, oid) ==
  /\ waiting[t] = NoObj
  /\ det_pc # "build"
  /\ UNCHANGED <<isolation, lock_map, upgrading_, waiting, wait_upgrade, det_vars, tree_vars>>
  /\ IF Tbl(oid) \notin lock_map
       THEN /\ AbortWith(t, "ATTEMPTED_UNLOCK_BUT_NO_LOCK_HELD")
            /\ UNCHANGED <<table_lock_set, row_lock_set, request_queue_, notified, arrival,
                           unlocked_sx>>
     ELSE IF \E m \in {"S", "X"} : \E rid \in row_lock_set[t][m] : RowTable(rid) = oid
       THEN /\ AbortWith(t, "TABLE_UNLOCKED_BEFORE_UNLOCKING_ROWS")
            /\ UNCHANGED <<table_lock_set, row_lock_set, request_queue_, notified, arrival,
                           unlocked_sx>>
     ELSE Release(t, Tbl(oid))

UnlockRow(t, oid, rid) ==
  /\ waiting[t] = NoObj
  /\ det_pc # "build"
  /\ UNCHANGED <<isolation, lock_map, upgrading_, waiting, wait_upgrade, det_vars, tree_vars>>
  /\ IF Row(rid) \notin lock_map
       THEN /\ AbortWith(t, "ATTEMPTED_UNLOCK_BUT_NO_LOCK_HELD")
            /\ UNCHANGED <<table_lock_set, row_lock_set, request_queue_, notified, arrival,
                           unlocked_sx>>
     ELSE Release(t, Row(rid))

(***************************************************************************)
(* The owner of a transaction ends it: TransactionManager::Commit sets the *)
(* state to COMMITTED; the locks the transaction holds are released by     *)
(* UnlockRow and UnlockTable calls after that.                             *)
(***************************************************************************)
TxnCommit(t) ==
  /\ waiting[t] = NoObj
  /\ txn_state[t] \in {"GROWING", "SHRINKING"}
  /\ txn_state' = [txn_state EXCEPT ![t] = "COMMITTED"]
  /\ UNCHANGED <<isolation, unlocked_sx, table_lock_set, row_lock_set, lock_map, request_queue_,
                 upgrading_, waiting, wait_upgrade, notified, last_result, arrival,
                 det_vars, tree_vars>>

(***************************************************************************)
(* The deadlock detector: RunCycleDetection, HasCycle, DFS, DeleteNode.    *)
(* While the graph is built the detector owns table_lock_map_latch_ and    *)
(* row_lock_map_latch_, so no LockTable / LockRow call gets to its queue   *)
(* and no unlock starts; threads blocked on a queue's cv_ still resume.    *)
(***************************************************************************)
NoGraph == [t \in AllTxns |-> {}]
NoVictim == [txn_id |-> INVALID_TXN_ID, active |-> {}]

\* AddEdge for every ungranted request of q towards every granted one
AddEdges(g, q) ==
  LET granted_set == {q[i].txn_id_ : i \in {j \in 1..Len(q) : q[j].granted_}}
      waiters == {q[i].txn_id_ : i \in {j \in 1..Len(q) : ~q[j].granted_}}
  IN [t \in AllTxns |-> IF t \in waiters THEN g[t] \cup granted_set ELSE g[t]]

\* txn_set_ after the same calls of AddEdge
AddNodes(nodes, q) ==
  IF (\E i \in 1..Len(q) : q[i].granted_) /\ (\E i \in 1..Len(q) : ~q[i].granted_)
    THEN nodes \cup {q[i].txn_id_ : i \in 1..Len(q)}
    ELSE nodes

\* map_txn_oid_.emplace / map_txn_rid_.emplace: the first entry of a key stays
AddWaiters(m, q, o) ==
  [t \in AllTxns |->
     IF m[t] = NoObj /\ \E i \in 1..Len(q) : q[i].txn_id_ = t /\ ~q[i].granted_
       THEN o ELSE m[t]]

\* a faulty variant of Victim: the smallest id of active_set_
VictimOldest(active) == Min(active)

\* the victim HasCycle reports: the largest id of active_set_
Victim(active) == Max(active)

\* DFS(txn_id, visited, rec_stack): whether a cycle was met, the two sets as
\* the call leaves them, and what the call chain put into active_set_
RECURSIVE DFS(_, _, _, _), DFSLoop(_, _, _, _, _, _)
DFS(g, txn_id, visited, rec_stack) ==
  IF txn_id \in visited
    THEN [found |-> FALSE, visited |-> visited, rec_stack |-> rec_stack \ {txn_id},
          active |-> {}]
    ELSE DFSLoop(g, txn_id, SortedSeq(g[txn_id]), 1,
                 visited \cup {txn_id}, rec_stack \cup {txn_id})

DFSLoop(g, txn_id, next_node_vector, i, visited, rec_stack) ==
  IF i > Len(next_node_vector)
    THEN [found |-> FALSE, visited |-> visited, rec_stack |-> rec_stack \ {txn_id},
          active |-> {}]
  ELSE LET n == next_node_vector[i]
       IN IF n \notin visited
            THEN LET r == DFS(g, n, visited, rec_stack)
                 IN IF r.found
                      THEN [r EXCEPT !.active = @ \cup {txn_id}]
                    ELSE IF n \in r.rec_stack
                      THEN [found |-> TRUE, visited |-> r.visited,
                            rec_stack |-> r.rec_stack, active |-> {txn_id}]
                    ELSE DFSLoop(g, txn_id, next_node_vector, i + 1, r.visited, r.rec_stack)
          ELSE IF n \in rec_stack
            THEN [found |-> TRUE, visited |-> visited, rec_stack |-> rec_stack,
                  active |-> {txn_id}]
          ELSE DFSLoop(g, txn_id, next_node_vector, i + 1, visited, rec_stack)

\* the loop of HasCycle over txn_set_, in ascending order of id
RECURSIVE HasCycleFrom(_, _, _, _)
HasCycleFrom(g, starts, i, visited) ==
  IF i > Len(starts) THEN [found |-> FALSE, txn_id |-> INVALID_TXN_ID, active |-> {}]
  ELSE IF starts[i] \in visited THEN HasCycleFrom(g, starts, i + 1, visited)
  ELSE LET r == DFS(g, starts[i], visited, {})
       IN IF r.found
            THEN [found |-> TRUE, txn_id |-> Victim(r.active), active |-> r.active]
            ELSE HasCycleFrom(g, starts, i + 1, r.visited)

HasCycle(g, nodes) == HasCycleFrom(g, SortedSeq(nodes), 1, {})

\* DeleteNode: the edges into t1, then t1's own edges
DeleteNode(g, t1) == [t \in AllTxns |-> IF t = t1 THEN {} ELSE g[t] \ {t1}]

\* the detector wakes up and takes the two map latches
BuildStart(objs) ==
  /\ det_pc = "sleep"
  /\ det_pc' = "build"
  /\ det_todo' = objs \cap lock_map
  /\ UNCHANGED <<tree_vars, lm_vars, waits_for_, txn_set_, map_txn_obj, built_graph, last_victim>>

\* one queue is read under its latch_
BuildQueue(o) ==
  /\ det_pc = "build"
  /\ o \in det_todo
  /\ waits_for_' = AddEdges(waits_for_, request_queue_[o])
  /\ txn_set_' = AddNodes(txn_set_, request_queue_[o])
  /\ map_txn_obj' = AddWaiters(map_txn_obj, request_queue_[o], o)
  /\ det_todo' = det_todo \ {o}
  /\ UNCHANGED <<tree_vars, lm_vars, det_pc, built_graph, last_victim>>

\* every queue was read: the map latches are released
BuildDone ==
  /\ det_pc = "build"
  /\ det_todo = {}
  /\ det_pc' = "cycles"
  /\ built_graph' = waits_for_
  /\ UNCHANGED <<tree_vars, lm_vars, waits_for_, txn_set_, map_txn_obj, det_todo, last_victim>>

\* one turn of while (HasCycle(&aborted_txn_id))
AbortVictim ==
  /\ det_pc = "cycles"
  /\ LET hc == HasCycle(waits_for_, txn_set_)
     IN /\ hc.found
        /\ txn_state' = [txn_state EXCEPT ![hc.txn_id] = "ABORTED"]
        /\ waits_for_' = DeleteNode(waits_for_, hc.txn_id)
        /\ txn_set_' = txn_set_ \ {hc.txn_id}
        /\ notified' = IF map_txn_obj[hc.txn_id] # NoObj
                         THEN NotifyAll(notified, waiting, map_txn_obj[hc.txn_id])
                         ELSE notified
        /\ last_victim' = [txn_id |-> hc.txn_id, active |-> hc.active]
  /\ UNCHANGED <<isolation, unlocked_sx, table_lock_set, row_lock_set, lock_map, request_queue_,
                 upgrading_, waiting, wait_upgrade, last_result, arrival,
                 map_txn_obj, det_pc, det_todo, built_graph, tree_vars>>

\* a faulty variant of EndPass: the loop body runs at most once
EndPassAfterOne ==
  /\ det_pc = "cycles"
  /\ last_victim # NoVictim \/ ~HasCycle(waits_for_, txn_set_).found
  /\ waits_for_' = NoGraph
  /\ txn_set_' = {}
  /\ map_txn_obj' = [t \in AllTxns |-> NoObj]
  /\ det_pc' = "sleep"
  /\ built_graph' = NoGraph
  /\ last_victim' = NoVictim
  /\ UNCHANGED <<tree_vars, lm_vars, det_todo>>

\* no cycle is left: the data of the pass is cleared
EndPass ==
  /\ det_pc = "cycles"
  /\ ~HasCycle(waits_for_, txn_set_).found
  /\ waits_for_' = NoGraph
  /\ txn_set_' = {}
  /\ map_txn_obj' = [t \in AllTxns |-> NoObj]
  /\ det_pc' = "sleep"
  /\ built_graph' = NoGraph
  /\ last_victim' = NoVictim
  /\ UNCHANGED <<tree_vars, lm_vars, det_todo>>

(***************************************************************************)
(* The B+ tree: pages, lookups in a page, and the latches of a reader.     *)
(***************************************************************************)
INVALID_PAGE_ID == -1
HEADER_PAGE_ID == 0

Threads == 1..MaxThread
Keys == 0..MaxKey

\* a leaf page holding the given keys (the value stored with key k is k)
LeafPage(keys, next) ==
  [page_type_ |-> "LEAF_PAGE", size_ |-> Len(keys),
   array_ |-> [i \in 1..Len(keys) |-> [first |-> keys[i], second |-> keys[i]]],
   next_page_id_ |-> next]

\* an internal page holding the given (key, child) pairs; the key of pair 0 is unused
InternalPage(entries) ==
  [page_type_ |-> "INTERNAL_PAGE", size_ |-> Len(entries),
   array_ |-> [i \in 1..Len(entries) |-> [first |-> entries[i][1], second |-> entries[i][2]]]]

\* array_[index] of a page (the source counts from 0)
ArrayAt(p, index) == p.array_[index + 1]
IsLeafPage(p) == p.page_type_ = "LEAF_PAGE"
ValueAt(p, index) == ArrayAt(p, index).second

\* the while loop of FindKey, KeyIndex and FindValue of a leaf page
RECURSIVE LeafScan(_, _, _)
LeafScan(p, key, index) ==
  IF index < p.size_ /\ ArrayAt(p, index).first < key
    THEN LeafScan(p, key, index + 1)
    ELSE index

FindValue(p, key) ==
  LET index == LeafScan(p, key, 0)
  IN IF index = p.size_ THEN FALSE ELSE ArrayAt(p, index).first = key

KeyIndex(p, key) ==
  LET index == LeafScan(p, key, 0)
  IN IF index = p.size_ THEN -1
     ELSE IF ArrayAt(p, index).first = key THEN index ELSE -1

RECURSIVE FindKeyIndexLoop(_, _, _)
FindKeyIndexLoop(p, key, index) ==
  IF key >= ArrayAt(p, index).first THEN FindKeyIndexLoop(p, key, index + 1) ELSE index

FindKeyIndex(p, key) ==
  IF ArrayAt(p, 1).first > key THEN 0
  ELSE IF key >= ArrayAt(p, p.size_ - 1).first THEN p.size_ - 1
  ELSE FindKeyIndexLoop(p, key, 1) - 1

\* the trees Insert leaves when the keys 1..n are inserted in ascending order
\* (n = 0, 2, 4, 6) into a tree of leaf_max_size 4 and internal_max_size 4;
\* page 0 is the header page, the first leaf is page 1, a split takes the next
\* free page id
TreesAfterInserts ==
  { [root |-> INVALID_PAGE_ID, pages |-> <<>>],
    [root |-> 1, pages |-> (1 :> LeafPage(<<1, 2>>, INVALID_PAGE_ID))],
    [root |-> 3, pages |-> (1 :> LeafPage(<<1, 2>>, 2)
                            @@ 2 :> LeafPage(<<3, 4>>, INVALID_PAGE_ID)
                            @@ 3 :> InternalPage(<< <<0, 1>>, <<3, 2>> >>))],
    [root |-> 3, pages |-> (1 :> LeafPage(<<1, 2>>, 2)
                            @@ 2 :> LeafPage(<<3, 4>>, 4)
                            @@ 3 :> InternalPage(<< <<0, 1>>, <<3, 2>>, <<5, 4>> >>)
                            @@ 4 :> LeafPage(<<5, 6>>, INVALID_PAGE_ID))] }

\* the process has stopped
Crashed == \E th \in Threads : rd_pc[th] = "crashed"

\* GetValue up to its call of FindLeafPageCon: root_page_id_latch_.RLock().
\* A thread that still holds the latch for reading from an earlier call locks
\* it again; with no writer waiting the shared lock is taken once more.
GetValue(th, key) ==
  /\ ~Crashed
  /\ rd_pc[th] = "idle"
  /\ root_rlock[th] < MaxRootReads
  /\ root_rlock' = [root_rlock EXCEPT ![th] = @ + 1]
  /\ rd_pc' = [rd_pc EXCEPT ![th] = "find"]
  /\ rd_op' = [rd_op EXCEPT ![th] = "GetValue"]
  /\ rd_key' = [rd_key EXCEPT ![th] = key]
  /\ rd_result' = [rd_result EXCEPT ![th] = "none"]
  /\ UNCHANGED <<pin_count_, root_page_id_, pages, rlatch, rd_page, rd_index, wr_vars, it_vars, lm_vars, det_vars>>

\* Begin(key) up to its call of FindLeafPageCon: an empty tree gives the end
\* iterator without a latch, otherwise root_page_id_latch_.RLock()
BeginKey(th, key) ==
  /\ ~Crashed
  /\ rd_pc[th] = "idle"
  /\ root_rlock[th] < MaxRootReads
  /\ rd_op' = [rd_op EXCEPT ![th] = "Begin"]
  /\ rd_key' = [rd_key EXCEPT ![th] = key]
  /\ IF root_page_id_ = INVALID_PAGE_ID
       THEN /\ rd_result' = [rd_result EXCEPT ![th] = "end"]
            /\ UNCHANGED <<root_rlock, rd_pc>>
       ELSE /\ rd_result' = [rd_result EXCEPT ![th] = "none"]
            /\ root_rlock' = [root_rlock EXCEPT ![th] = @ + 1]
            /\ rd_pc' = [rd_pc EXCEPT ![th] = "find"]
  /\ UNCHANGED <<pin_count_, root_page_id_, pages, rlatch, rd_page, rd_index, wr_vars, it_vars, lm_vars, det_vars>>

\* FindLeafPageCon(key, SEARCH) up to the RLatch of the root page.  On an empty
\* tree it returns nullptr with the root latch still held: Begin(key) throws,
\* GetValue has already called pagec->GetData() on the null pointer and either
\* returns false or the process stops.  Otherwise the root page is fetched and
\* the root latch is released.
FindLeafPageCon(th) ==
  /\ ~Crashed
  /\ rd_pc[th] = "find"
  /\ IF root_page_id_ = INVALID_PAGE_ID
       THEN /\ \E out \in (IF rd_op[th] = "GetValue" THEN {"false", "crash"} ELSE {"exception"}) :
                 /\ rd_result' = [rd_result EXCEPT ![th] = out]
                 /\ rd_pc' = [rd_pc EXCEPT ![th] = IF out = "crash" THEN "crashed" ELSE "idle"]
            /\ UNCHANGED <<root_rlock, rd_page, pin_count_>>
       ELSE /\ rd_page' = [rd_page EXCEPT ![th] = root_page_id_]
            /\ pin_count_' = pin_count_ (+) SetToBag({root_page_id_})
            /\ root_rlock' = [root_rlock EXCEPT ![th] = @ - 1]
            /\ rd_pc' = [rd_pc EXCEPT ![th] = "root"]
            /\ UNCHANGED rd_result
  /\ UNCHANGED <<root_page_id_, pages, rlatch, rd_op, rd_key, rd_index, wr_vars, it_vars, lm_vars, det_vars>>

\* pagec->RLatch() of the root page, child_page->RLatch() of a child
RLatch(th) ==
  /\ ~Crashed
  /\ rd_pc[th] \in {"root", "child"}
  /\ rlatch' = [rlatch EXCEPT ![th] = @ \cup {rd_page[th]}]
  /\ rd_pc' = [rd_pc EXCEPT ![th] = "at"]
  /\ UNCHANGED <<pin_count_, root_page_id_, pages, root_rlock, rd_op, rd_key, rd_page, rd_result,
                 rd_index, wr_vars, it_vars, lm_vars, det_vars>>

\* the child page ids FindKeyIndex and ValueAt can give for a key.  A page of
\* the tree has two entries or more and the comparisons stay within them.  A
\* page that a Remove has emptied or cut off from the tree while the thread
\* had it fetched holds fewer: FindKeyIndex compares the key with array_[1]
\* and array_[GetSize() - 1], which are beyond the entries or before the array,
\* and the child is read from whatever slot this leads to: any page of the
\* buffer pool, or no page at all
ChildRead(p, key) ==
  IF p.size_ >= 2 THEN {ValueAt(p, FindKeyIndex(p, key))}
  ELSE DOMAIN pages \cup {INVALID_PAGE_ID}

\* one turn of the while loop of FindLeafPageCon(key, SEARCH) up to the RLatch
\* of the child: the child is chosen and fetched, then pagec->RUnlatch(); the
\* UnpinPage of pagec, which follows the RLatch of the child, is counted here
Descend(th) ==
  /\ ~Crashed
  /\ rd_pc[th] = "at"
  /\ ~IsLeafPage(pages[rd_page[th]])
  /\ \E child_page_id \in ChildRead(pages[rd_page[th]], rd_key[th]) :
        IF child_page_id = INVALID_PAGE_ID
          THEN /\ rd_pc' = [rd_pc EXCEPT ![th] = "crashed"]
               /\ UNCHANGED <<rlatch, rd_page, pin_count_>>
          ELSE /\ rlatch' = [rlatch EXCEPT ![th] = @ \ {rd_page[th]}]
               /\ rd_page' = [rd_page EXCEPT ![th] = child_page_id]
               /\ pin_count_' = (pin_count_ (+) SetToBag({child_page_id}))
                                   (-) SetToBag({rd_page[th]})
               /\ rd_pc' = [rd_pc EXCEPT ![th] = "child"]
  /\ UNCHANGED <<root_page_id_, pages, root_rlock, rd_op, rd_key, rd_result, rd_index,
                 wr_vars, it_vars, lm_vars, det_vars>>

\* GetValue after FindLeafPageCon returned the leaf: FindValue, RUnlatch, return
GetValueReturn(th) ==
  /\ ~Crashed
  /\ rd_pc[th] = "at"
  /\ rd_op[th] = "GetValue"
  /\ IsLeafPage(pages[rd_page[th]])
  /\ rd_result' = [rd_result EXCEPT ![th] =
                     IF FindValue(pages[rd_page[th]], rd_key[th]) THEN "true" ELSE "false"]
  /\ rlatch' = [rlatch EXCEPT ![th] = @ \ {rd_page[th]}]
  /\ pin_count_' = pin_count_ (-) SetToBag({rd_page[th]})
  /\ rd_pc' = [rd_pc EXCEPT ![th] = "idle"]
  /\ UNCHANGED <<root_page_id_, pages, root_rlock, rd_op, rd_key, rd_page, rd_index,
                 wr_vars, it_vars, lm_vars, det_vars>>

\* Begin(key) after FindLeafPageCon returned the leaf: the iterator keeps the
\* leaf read-latched
BeginReturn(th) ==
  /\ ~Crashed
  /\ rd_pc[th] = "at"
  /\ rd_op[th] = "Begin"
  /\ IsLeafPage(pages[rd_page[th]])
  /\ rd_index' = [rd_index EXCEPT ![th] = KeyIndex(pages[rd_page[th]], rd_key[th])]
  /\ rd_result' = [rd_result EXCEPT ![th] = "iterator"]
  /\ rd_pc' = [rd_pc EXCEPT ![th] = "iter"]
  /\ rd_seen' = [rd_seen EXCEPT ![th] = <<>>]
  /\ UNCHANGED <<pin_count_, root_page_id_, pages, root_rlock, rlatch, rd_op, rd_key, rd_page,
                 wr_vars, lm_vars, det_vars>>

\* ~IndexIterator: the leaf of the iterator is unlatched and unpinned
IteratorDestroy(th) ==
  /\ ~Crashed
  /\ rd_pc[th] = "iter"
  /\ rlatch' = [rlatch EXCEPT ![th] = @ \ {rd_page[th]}]
  /\ pin_count_' = pin_count_ (-) SetToBag({rd_page[th]})
  /\ rd_pc' = [rd_pc EXCEPT ![th] = "idle"]
  /\ UNCHANGED <<root_page_id_, pages, root_rlock, rd_op, rd_key, rd_page, rd_result,
                 rd_index, wr_vars, it_vars, lm_vars, det_vars>>

\* IndexIterator::IsEnd
IsEnd(th) ==
  /\ pages[rd_page[th]].next_page_id_ = INVALID_PAGE_ID
  /\ rd_index[th] = pages[rd_page[th]].size_

\* what array_[-1] of a leaf page gives for a key: bytes of the page header
\* (max_size_, parent_page_id_), which compare below or above the stored keys
GarbageKeys == {INVALID_PAGE_ID, MaxKey + 1}

\* operator* in the body of a loop "for (it = Begin(key); !it.IsEnd(); ++it)":
\* GetPair(idx_); the iterator of Begin(key) for a key the leaf does not hold
\* has idx_ = -1
IteratorDeref(th) ==
  /\ ~Crashed
  /\ rd_pc[th] = "iter"
  /\ ~IsEnd(th)
  /\ \E key \in (IF rd_index[th] >= 0 THEN {ArrayAt(pages[rd_page[th]], rd_index[th]).first}
                 ELSE GarbageKeys) :
       rd_seen' = [rd_seen EXCEPT ![th] = Append(@, key)]
  /\ rd_pc' = [rd_pc EXCEPT ![th] = "seen"]
  /\ UNCHANGED <<pin_count_, root_page_id_, pages, root_rlock, rlatch, rd_op, rd_key, rd_page, rd_result,
                 rd_index, wr_vars, lm_vars, det_vars>>

\* operator++ up to next_page->RLatch(): idx_++, and at the end of a leaf that
\* has a next leaf the next leaf is fetched and read-latched
IteratorIncrement(th) ==
  /\ ~Crashed
  /\ rd_pc[th] = "seen"
  /\ rd_index' = [rd_index EXCEPT ![th] = @ + 1]
  /\ LET leaf_ == pages[rd_page[th]]
     IN IF rd_index[th] + 1 = leaf_.size_ /\ leaf_.next_page_id_ # INVALID_PAGE_ID
          THEN /\ rlatch' = [rlatch EXCEPT ![th] = @ \cup {leaf_.next_page_id_}]
               /\ pin_count_' = pin_count_ (+) SetToBag({leaf_.next_page_id_})
               /\ rd_pc' = [rd_pc EXCEPT ![th] = "move"]
          ELSE /\ rd_pc' = [rd_pc EXCEPT ![th] = "iter"]
               /\ UNCHANGED <<rlatch, pin_count_>>
  /\ UNCHANGED <<root_page_id_, pages, root_rlock, rd_op, rd_key, rd_page, rd_result,
                 wr_vars, it_vars, lm_vars, det_vars>>

\* operator++ that keeps the old leaf latched
IteratorMoveKeepLatch(th) ==
  /\ ~Crashed
  /\ rd_pc[th] = "move"
  /\ rd_page' = [rd_page EXCEPT ![th] = pages[rd_page[th]].next_page_id_]
  /\ rd_index' = [rd_index EXCEPT ![th] = 0]
  /\ pin_count_' = pin_count_ (-) SetToBag({rd_page[th]})
  /\ rd_pc' = [rd_pc EXCEPT ![th] = "iter"]
  /\ UNCHANGED <<root_page_id_, pages, root_rlock, rlatch, rd_op, rd_key, rd_result,
                 wr_vars, it_vars, lm_vars, det_vars>>

\* operator++ from the RUnlatch of the old leaf to its return: leaf_ is the
\* next leaf, idx_ = 0
IteratorMove(th) ==
  /\ ~Crashed
  /\ rd_pc[th] = "move"
  /\ rlatch' = [rlatch EXCEPT ![th] = @ \ {rd_page[th]}]
  /\ rd_page' = [rd_page EXCEPT ![th] = pages[rd_page[th]].next_page_id_]
  /\ rd_index' = [rd_index EXCEPT ![th] = 0]
  /\ pin_count_' = pin_count_ (-) SetToBag({rd_page[th]})
  /\ rd_pc' = [rd_pc EXCEPT ![th] = "iter"]
  /\ UNCHANGED <<root_page_id_, pages, root_rlock, rd_op, rd_key, rd_result,
                 wr_vars, it_vars, lm_vars, det_vars>>

\* the tree and its threads before the first call; the caller has created the
\* header page and holds it pinned
TreeInit(trees) ==
  /\ \E tr \in trees : root_page_id_ = tr.root /\ pages = tr.pages
  /\ root_rlock = [th \in Threads |-> 0]
  /\ rlatch = [th \in Threads |-> {}]
  /\ rd_pc = [th \in Threads |-> "idle"]
  /\ rd_op = [th \in Threads |-> "none"]
  /\ rd_key = [th \in Threads |-> 0]
  /\ rd_page = [th \in Threads |-> INVALID_PAGE_ID]
  /\ rd_result = [th \in Threads |-> "none"]
  /\ rd_index = [th \in Threads |-> 0]
  /\ rd_seen = [th \in Threads |-> <<>>]
  /\ pin_count_ = SetToBag({HEADER_PAGE_ID})

(***************************************************************************)
(* The B+ tree as Insert and Remove leave it.  A call runs from its        *)
(* root_page_id_latch_.WLock() to its return under the write latches of    *)
(* the pages it changes, so a call is one action.                          *)
(***************************************************************************)
WrKeys == 1..MaxWrKey
\* the value a test stores with a key is the RID made of the key
RidOf(key) == key
\* a second value for a key
OtherRidOf(key) == key + MaxKey + 1

\* B_PLUS_TREE_LEAF_PAGE_TYPE::Init and B_PLUS_TREE_INTERNAL_PAGE_TYPE::Init
LeafInit(parent_id, max_size) ==
  [page_type_ |-> "LEAF_PAGE", size_ |-> 0, array_ |-> <<>>,
   next_page_id_ |-> INVALID_PAGE_ID, parent_page_id_ |-> parent_id, max_size_ |-> max_size]

InternalInit(parent_id, max_size) ==
  [page_type_ |-> "INTERNAL_PAGE", size_ |-> 0, array_ |-> <<>>,
   parent_page_id_ |-> parent_id, max_size_ |-> max_size]

KeyAt(p, index) == ArrayAt(p, index).first
IsRootPage(p) == p.parent_page_id_ = INVALID_PAGE_ID
GetMinSize(p) ==
  IF IsLeafPage(p) THEN p.max_size_ \div 2 ELSE (p.max_size_ + 1) \div 2

\* the page with array_ replaced (size_ follows the array)
WithArray(p, arr) == [p EXCEPT !.array_ = arr, !.size_ = Len(arr)]

\* SetParentPageId of the given children
SetParentPageId(pgs, children, parent_id) ==
  [id \in DOMAIN pgs |->
     IF id \in children THEN [pgs[id] EXCEPT !.parent_page_id_ = parent_id] ELSE pgs[id]]

ChildrenOf(arr) == {arr[i].second : i \in 1..Len(arr)}

\* the null Page pointer Insert and Remove put into the page set for the root latch
nullptr == INVALID_PAGE_ID

\* a call of the buffer pool (FetchPage, NewPage, UnpinPage, DeletePage), of a
\* page latch (WLatch, WUnlatch), of root_page_id_latch_ (WLock, WUnlock), of
\* the header page (InsertRecord, UpdateRecord) or of SetParentPageId of a page
\* other than the one the function works on; Did: the thread has made the
\* calls, in this order
Ev(name, page_id) == [call |-> name, page |-> page_id]
Did(t, calls) == [t EXCEPT !.log = @ \o calls]

\* FetchPage, SetParentPageId and UnpinPage of each child an internal page takes
\* over (CopyFrom, CopyNFrom, CopyFirstFrom, CopyLastFrom)
ChildCalls(arr) ==
  [j \in 1..(3 * Len(arr)) |->
     IF j % 3 = 1 THEN Ev("FetchPage", arr[(j + 2) \div 3].second)
     ELSE IF j % 3 = 2 THEN Ev("SetParentPageId", arr[(j + 1) \div 3].second)
     ELSE Ev("UnpinPage", arr[j \div 3].second)]

\* ReleaseLatchFromQueue: each page of the page set is unlatched and unpinned,
\* the null pointer releases the root latch; the page set is cleared
RECURSIVE ReleaseCalls(_)
ReleaseCalls(set) ==
  IF set = <<>> THEN <<>>
  ELSE (IF Head(set) = nullptr THEN <<Ev("WUnlock", nullptr)>>
        ELSE <<Ev("WUnlatch", Head(set)), Ev("UnpinPage", Head(set))>>)
       \o ReleaseCalls(Tail(set))

ReleaseLatchFromQueue(t) ==
  [t EXCEPT !.log = @ \o ReleaseCalls(t.page_set), !.page_set = <<>>]

\* UpdateRootPageId: the header page is fetched, takes the record of the root
\* and is unpinned
UpdateRootPageId(t, insert_record) ==
  Did(t, <<Ev("FetchPage", HEADER_PAGE_ID),
           Ev(IF insert_record # 0 THEN "InsertRecord" ELSE "UpdateRecord", t.root),
           Ev("UnpinPage", HEADER_PAGE_ID)>>)

\* the pin counts after the calls of a log (UnpinPage of an unpinned page
\* changes nothing)
RECURSIVE PinsFrom(_, _, _)
PinsFrom(pins, log, n) ==
  IF n > Len(log) THEN pins
  ELSE PinsFrom(IF log[n].call \in {"FetchPage", "NewPage"} THEN pins (+) SetToBag({log[n].page})
                ELSE IF log[n].call = "UnpinPage" THEN pins (-) SetToBag({log[n].page})
                ELSE pins,
                log, n + 1)

PinsAfter(pins, log) == PinsFrom(pins, log, 1)

\* the latches the thread holds when it makes call n of the log
LatchesHeld(log, n) ==
  {log[i].page : i \in {i \in 1..(n - 1) :
     /\ log[i].call \in {"WLock", "WLatch"}
     /\ ~\E j \in (i + 1)..(n - 1) :
           log[j].call \in {"WUnlock", "WUnlatch"} /\ log[j].page = log[i].page}}

\* the pages whose parent_page_id_ a log writes without the write latch of
\* the page, the pages the log itself has got from NewPage left aside
RECURSIVE UnlatchedFrom(_, _, _, _)
UnlatchedFrom(log, n, held, made) ==
  IF n > Len(log) THEN {}
  ELSE IF log[n].call \in {"WLock", "WLatch"}
    THEN UnlatchedFrom(log, n + 1, held \cup {log[n].page}, made)
  ELSE IF log[n].call \in {"WUnlock", "WUnlatch"}
    THEN UnlatchedFrom(log, n + 1, held \ {log[n].page}, made)
  ELSE IF log[n].call = "NewPage"
    THEN UnlatchedFrom(log, n + 1, held, made \cup {log[n].page})
  ELSE IF log[n].call = "SetParentPageId" /\ log[n].page \notin held \cup made
    THEN {log[n].page} \cup UnlatchedFrom(log, n + 1, held, made)
  ELSE UnlatchedFrom(log, n + 1, held, made)

UnlatchedWrites(log) ==
  IF \A n \in 1..Len(log) : log[n].call # "SetParentPageId" THEN {}
  ELSE UnlatchedFrom(log, 1, {}, {})

\* the pages of the DeletePage calls of a log and the latches held at them
DeleteCalls(log) ==
  LET at == {i \in 1..Len(log) : log[i].call = "DeletePage"}
  IN [called |-> at # {}, latched |-> UNION {LatchesHeld(log, i) : i \in at}]

\* the calls of the header page in a log
HeaderCalls(log) ==
  LET calls == SelectSeq(log, LAMBDA c : c.call \in {"InsertRecord", "UpdateRecord"})
  IN [i \in 1..Len(calls) |-> calls[i].call]

\* the descent of FindLeafPageCon (INSERT, DELETE) and FindLeafPage
RECURSIVE FindLeafPage(_, _, _)
FindLeafPage(pgs, id, key) ==
  IF IsLeafPage(pgs[id]) THEN id
  ELSE FindLeafPage(pgs, ValueAt(pgs[id], FindKeyIndex(pgs[id], key)), key)

\* FindLeafPageCon for INSERT and DELETE: the node cannot split or fall under
\* its minimum
SafeNode(op, node) ==
  IF op = "INSERT"
    THEN IF IsLeafPage(node) THEN node.size_ < node.max_size_ - 1
         ELSE node.size_ < node.max_size_
    ELSE node.size_ > GetMinSize(node)

\* the while loop of FindLeafPageCon for INSERT and DELETE: the child is fetched
\* and write-latched, pagec joins the page set, and a safe child releases the
\* page set
RECURSIVE CrabLoop(_, _, _, _)
CrabLoop(t, pagec, op, key) ==
  IF IsLeafPage(t.pages[pagec]) THEN [tree |-> t, leaf |-> pagec]
  ELSE LET child_page_id == ValueAt(t.pages[pagec], FindKeyIndex(t.pages[pagec], key))
           latched == [Did(t, <<Ev("FetchPage", child_page_id), Ev("WLatch", child_page_id)>>)
                         EXCEPT !.page_set = Append(@, pagec)]
       IN CrabLoop(IF SafeNode(op, t.pages[child_page_id])
                     THEN ReleaseLatchFromQueue(latched) ELSE latched,
                   child_page_id, op, key)

\* FindLeafPageCon for INSERT and DELETE: the root page is fetched and
\* write-latched; a root that the call cannot change releases the root latch
FindLeafPageConOp(t, op, key) ==
  LET node == t.pages[t.root]
      latched == Did(t, <<Ev("FetchPage", t.root), Ev("WLatch", t.root)>>)
      safe == IF op = "DELETE" THEN node.size_ > 2 ELSE SafeNode(op, node)
  IN CrabLoop(IF safe THEN ReleaseLatchFromQueue(latched) ELSE latched, t.root, op, key)

\* leaf page: InsertInLeaf
InsertInLeaf(p, key, value) ==
  LET index == LeafScan(p, key, 0)
      pair == [first |-> key, second |-> value]
  IN IF index = p.size_
       THEN [ok |-> TRUE, page |-> WithArray(p, Append(p.array_, pair))]
     ELSE IF ArrayAt(p, index).first = key /\ ArrayAt(p, index).second = value
       THEN [ok |-> FALSE, page |-> p]
     ELSE [ok |-> TRUE, page |-> WithArray(p, InsertAt(p.array_, index + 1, pair))]

\* internal page: ValueIndex, SetNewRoot, InsertNodeAfter
ValueIndex(p, value) ==
  FirstIdx(p.array_, {i \in 1..p.size_ : p.array_[i].second = value}) - 1

\* the key of array_[0] is what the new page holds there: zero
SetNewRoot(p, old_value, new_key, new_value) ==
  WithArray(p, << [first |-> 0, second |-> old_value],
                  [first |-> new_key, second |-> new_value] >>)

InsertNodeAfter(p, old_value, new_key, new_value) ==
  LET new_value_index == ValueIndex(p, old_value) + 1
  IN WithArray(p, InsertAt(p.array_, new_value_index + 1,
                           [first |-> new_key, second |-> new_value]))

\* a Split that leaves one entry in the old page
SplitAtOne(t, id) ==
  LET node == t.pages[id]
      new_page_id == t.next
      moved == SubSeq(node.array_, 2, node.size_)
      kept == WithArray(node, SubSeq(node.array_, 1, 1))
      newnode ==
        IF IsLeafPage(node)
          THEN [WithArray(LeafInit(node.parent_page_id_, node.max_size_), moved)
                  EXCEPT !.next_page_id_ = node.next_page_id_]
          ELSE WithArray(InternalInit(node.parent_page_id_, node.max_size_), moved)
      pgs == (new_page_id :> newnode) @@ [t.pages EXCEPT ![id] = kept]
  IN [t EXCEPT !.next = new_page_id + 1,
               !.pages = IF IsLeafPage(node) THEN pgs
                         ELSE SetParentPageId(pgs, ChildrenOf(moved), new_page_id)]

\* Split: a new page with the parent and the max size of node takes the
\* entries from GetMinSize() on (MoveLastHalfTo of the leaf page and of the
\* internal page, which sets the parent of the children it moves)
Split(t, id) ==
  LET node == t.pages[id]
      new_page_id == t.next
      spilt_index == GetMinSize(node)
      moved == SubSeq(node.array_, spilt_index + 1, node.size_)
      kept == WithArray(node, SubSeq(node.array_, 1, spilt_index))
      newnode ==
        IF IsLeafPage(node)
          THEN [WithArray(LeafInit(node.parent_page_id_, node.max_size_), moved)
                  EXCEPT !.next_page_id_ = node.next_page_id_]
          ELSE WithArray(InternalInit(node.parent_page_id_, node.max_size_), moved)
      pgs == (new_page_id :> newnode) @@ [t.pages EXCEPT ![id] = kept]
  IN [t EXCEPT !.next = new_page_id + 1,
               !.pages = IF IsLeafPage(node) THEN pgs
                         ELSE SetParentPageId(pgs, ChildrenOf(moved), new_page_id),
               !.log = @ \o <<Ev("NewPage", new_page_id)>>
                         \o (IF IsLeafPage(node) THEN <<>> ELSE ChildCalls(moved))]

\* an InsertIntoParent that does not split a full parent: the two pages get a
\* new internal page above them, which takes the place of the old page in the
\* parent
InsertIntoParentWrap(t, old_id, key, new_id) ==
  LET old_node == t.pages[old_id]
      new_page_id == t.next
      above == SetNewRoot(InternalInit(old_node.parent_page_id_, internal_max_size_),
                          old_id, key, new_id)
      wrapped == (new_page_id :> above)
                 @@ SetParentPageId(t.pages, {old_id, new_id}, new_page_id)
  IN IF IsRootPage(old_node)
       THEN [t EXCEPT !.root = new_page_id, !.next = new_page_id + 1, !.pages = wrapped]
       ELSE LET parent_page_id == old_node.parent_page_id_
                parent == t.pages[parent_page_id]
            IN IF parent.size_ < parent.max_size_
                 THEN [t EXCEPT !.pages[parent_page_id] =
                                  InsertNodeAfter(parent, old_id, key, new_id)]
                 ELSE [t EXCEPT !.next = new_page_id + 1,
                                !.pages = [wrapped EXCEPT ![parent_page_id].array_[
                                             ValueIndex(parent, old_id) + 1].second = new_page_id]]

\* InsertIntoParent: new_id, split off old_id, is entered into the parent under
\* key; a root gets a new root above it, a full parent is split in turn
RECURSIVE InsertIntoParent(_, _, _, _)
InsertIntoParent(t, old_id, key, new_id) ==
  LET old_node == t.pages[old_id]
  IN IF IsRootPage(old_node)
       THEN LET new_page_id == t.next
                root == SetNewRoot(InternalInit(INVALID_PAGE_ID, internal_max_size_),
                                   old_id, key, new_id)
                rooted == [Did(t, <<Ev("NewPage", new_page_id),
                                    Ev("SetParentPageId", old_id),
                                    Ev("SetParentPageId", new_id)>>)
                             EXCEPT !.root = new_page_id, !.next = new_page_id + 1,
                                    !.pages = (new_page_id :> root)
                                              @@ SetParentPageId(t.pages, {old_id, new_id},
                                                                 new_page_id)]
            IN UpdateRootPageId(Did(rooted, <<Ev("UnpinPage", new_page_id)>>), 0)
       ELSE LET parent_page_id == old_node.parent_page_id_
                parent == t.pages[parent_page_id]
                inserted == [Did(t, <<Ev("FetchPage", parent_page_id)>>)
                               EXCEPT !.pages[parent_page_id] =
                                        InsertNodeAfter(parent, old_id, key, new_id)]
            IN IF parent.size_ < parent.max_size_
                 THEN Did(ReleaseLatchFromQueue(inserted), <<Ev("UnpinPage", parent_page_id)>>)
                 ELSE LET sp == Split(inserted, parent_page_id)
                      IN Did(InsertIntoParent(sp, parent_page_id,
                                              KeyAt(sp.pages[inserted.next], 0), inserted.next),
                             <<Ev("UnpinPage", parent_page_id), Ev("UnpinPage", inserted.next)>>)

\* StartNewTree: the root is a new leaf page that holds the pair
StartNewTree(t, key, value) ==
  LET rooted == [Did(t, <<Ev("NewPage", t.next)>>)
                   EXCEPT !.root = t.next, !.next = t.next + 1,
                          !.pages = (t.next :> InsertInLeaf(LeafInit(INVALID_PAGE_ID, t.leaf_max),
                                                            key, value).page) @@ t.pages]
  IN Did(UpdateRootPageId(rooted, 1), <<Ev("UnpinPage", t.next)>>)

\* a faulty variant of LeafReturn: the leaf stays pinned
LeafReturnPinned(t, leaf) == Did(t, <<Ev("WUnlatch", leaf)>>)

\* the end of Insert and Remove: the leaf is unlatched and unpinned
LeafReturn(t, leaf) == Did(t, <<Ev("WUnlatch", leaf), Ev("UnpinPage", leaf)>>)

\* the start of Insert and Remove: root_page_id_latch_.WLock(), and the null
\* pointer is put into the page set
RootLocked(t) == [Did(t, <<Ev("WLock", nullptr)>>) EXCEPT !.page_set = <<nullptr>>]

\* BPlusTree::Insert: the tree it leaves and the value it returns
\* (Insert from the leaf FindLeafPageCon has found)
InsertInto(t, found, key, value) ==
      LET leaf == found.leaf
          pagecnode == t.pages[leaf]
          ins == InsertInLeaf(pagecnode, key, value)
          inserted == [found.tree EXCEPT !.pages[leaf] = ins.page]
          refused == [tree |-> LeafReturn(ReleaseLatchFromQueue(found.tree), leaf),
                      result |-> FALSE]
      IN IF pagecnode.size_ < pagecnode.max_size_ - 1
           THEN IF ~ins.ok THEN refused
                ELSE [tree |-> LeafReturn(ReleaseLatchFromQueue(inserted), leaf),
                      result |-> TRUE]
           ELSE IF ~ins.ok THEN refused
                ELSE LET sp == Split(inserted, leaf)
                         newpage == inserted.next
                         linked == [sp EXCEPT
                                      !.pages[newpage].next_page_id_ = pagecnode.next_page_id_,
                                      !.pages[leaf].next_page_id_ = newpage]
                         above == InsertIntoParent(linked, leaf,
                                                   KeyAt(linked.pages[newpage], 0), newpage)
                     IN [tree |-> Did(LeafReturn(ReleaseLatchFromQueue(above), leaf),
                                      <<Ev("UnpinPage", newpage)>>),
                         result |-> TRUE]

InsertCall(t, key, value) ==
  IF t.root = INVALID_PAGE_ID
    THEN [tree |-> ReleaseLatchFromQueue(StartNewTree(RootLocked(t), key, value)),
          result |-> TRUE]
    ELSE InsertInto(t, FindLeafPageConOp(RootLocked(t), "INSERT", key), key, value)

\* Insert on a buffer pool whose NewPage returns nullptr once the page ids up
\* to max_page are handed out: whether the call throws OUT_OF_MEMORY, and the
\* tree and the log of the thread at the throw.
\* InsertIntoParent: the throw of the root case and the one of Split(parent),
\* which comes after InsertNodeAfter has put the new entry into the parent
RECURSIVE InsertIntoParentThrow(_, _, _, _, _)
InsertIntoParentThrow(t, old_id, key, new_id, max_page) ==
  LET old_node == t.pages[old_id]
  IN IF IsRootPage(old_node)
       THEN [thrown |-> t.next > max_page, tree |-> t]
       ELSE LET parent_page_id == old_node.parent_page_id_
                parent == t.pages[parent_page_id]
                inserted == [Did(t, <<Ev("FetchPage", parent_page_id)>>)
                               EXCEPT !.pages[parent_page_id] =
                                        InsertNodeAfter(parent, old_id, key, new_id)]
            IN IF parent.size_ < parent.max_size_ THEN [thrown |-> FALSE, tree |-> t]
               ELSE IF inserted.next > max_page THEN [thrown |-> TRUE, tree |-> inserted]
               ELSE LET sp == Split(inserted, parent_page_id)
                    IN InsertIntoParentThrow(sp, parent_page_id,
                                             KeyAt(sp.pages[inserted.next], 0), inserted.next,
                                             max_page)

\* Insert: the throw of StartNewTree, the one of Split(pagecnode), which comes
\* after InsertInLeaf has put the pair into the full leaf, and the ones of
\* InsertIntoParent
InsertThrow(t, key, value, max_page) ==
  IF t.root = INVALID_PAGE_ID
    THEN [thrown |-> t.next > max_page, tree |-> RootLocked(t)]
    ELSE LET found == FindLeafPageConOp(RootLocked(t), "INSERT", key)
             leaf == found.leaf
             pagecnode == t.pages[leaf]
             ins == InsertInLeaf(pagecnode, key, value)
             inserted == [found.tree EXCEPT !.pages[leaf] = ins.page]
         IN IF pagecnode.size_ < pagecnode.max_size_ - 1 \/ ~ins.ok
              THEN [thrown |-> FALSE, tree |-> found.tree]
            ELSE IF inserted.next > max_page THEN [thrown |-> TRUE, tree |-> inserted]
            ELSE LET sp == Split(inserted, leaf)
                     newpage == inserted.next
                     linked == [sp EXCEPT
                                  !.pages[newpage].next_page_id_ = pagecnode.next_page_id_,
                                  !.pages[leaf].next_page_id_ = newpage]
                 IN InsertIntoParentThrow(linked, leaf, KeyAt(linked.pages[newpage], 0),
                                          newpage, max_page)

\* leaf page: DeleteInLeaf; internal page: DeleteNode (InternalDeleteNode here)
DeleteInLeaf(p, key) ==
  LET index == LeafScan(p, key, 0)
  IN IF index = p.size_ THEN p
     ELSE IF ArrayAt(p, index).first = key THEN WithArray(p, RemoveAt(p.array_, index + 1))
     ELSE p

InternalDeleteNode(p, key) == WithArray(p, RemoveAt(p.array_, FindKeyIndex(p, key) + 1))

SetKeyAt(p, index, key) == [p EXCEPT !.array_[index + 1].first = key]

\* Redistribute that leaves the key of the parent as it is
RedistributeKeepKey(t, node_id, sibling_id, parent_id, index) ==
  LET node == t.pages[node_id]
      sibling == t.pages[sibling_id]
      item == IF index > 0 THEN ArrayAt(sibling, sibling.size_ - 1) ELSE ArrayAt(sibling, 0)
      node2 == IF index > 0 THEN WithArray(node, <<item>> \o node.array_)
               ELSE WithArray(node, Append(node.array_, item))
      sibling2 == IF index > 0 THEN WithArray(sibling, SubSeq(sibling.array_, 1, sibling.size_ - 1))
                  ELSE WithArray(sibling, Tail(sibling.array_))
      parent2 == t.pages[parent_id]
      pgs == [t.pages EXCEPT ![node_id] = node2, ![sibling_id] = sibling2,
                             ![parent_id] = parent2]
  IN [t EXCEPT !.pages = IF IsLeafPage(node) THEN pgs
                         ELSE SetParentPageId(pgs, {item.second}, node_id),
               !.log = @ \o (IF IsLeafPage(node) THEN <<>> ELSE ChildCalls(<<item>>))]

\* Redistribute: node takes the last pair of its left sibling (index > 0) or
\* the first pair of its right sibling (MoveLastToFrontOf, MoveFirstToEndOf of
\* the leaf page and of the internal page, which sets the parent of the child
\* it moves and leaves the keys of the pairs as they are), then the key of
\* the parent between the two pages is set
Redistribute(t, node_id, sibling_id, parent_id, index) ==
  LET node == t.pages[node_id]
      sibling == t.pages[sibling_id]
      item == IF index > 0 THEN ArrayAt(sibling, sibling.size_ - 1) ELSE ArrayAt(sibling, 0)
      node2 == IF index > 0 THEN WithArray(node, <<item>> \o node.array_)
               ELSE WithArray(node, Append(node.array_, item))
      sibling2 == IF index > 0 THEN WithArray(sibling, SubSeq(sibling.array_, 1, sibling.size_ - 1))
                  ELSE WithArray(sibling, Tail(sibling.array_))
      parent2 == IF index > 0 THEN SetKeyAt(t.pages[parent_id], index, KeyAt(node2, 0))
                 ELSE SetKeyAt(t.pages[parent_id], index + 1, KeyAt(sibling2, 0))
      pgs == [t.pages EXCEPT ![node_id] = node2, ![sibling_id] = sibling2,
                             ![parent_id] = parent2]
  IN [t EXCEPT !.pages = IF IsLeafPage(node) THEN pgs
                         ELSE SetParentPageId(pgs, {item.second}, node_id),
               !.log = @ \o (IF IsLeafPage(node) THEN <<>> ELSE ChildCalls(<<item>>))]

\* DeleteEntry: the entry of key leaves the page; a root that is left with one
\* child or with no pair gives way, a page left under its minimum is merged
\* with its sibling or borrows from it.
\* Coalesce: the right one of the two pages moves all its pairs to the left one
\* (MoveAllTo of the leaf page, which hands on next_page_id_, and of the
\* internal page, which writes k into its key 0 and sets the parent of the
\* children), the entry of k leaves the parent, the right page is deleted
RECURSIVE DeleteEntry(_, _, _), Coalesce(_, _, _, _, _, _)
Coalesce(t, node_id, sibling_id, parent_id, index, k) ==
  LET right_id == IF index = 0 THEN sibling_id ELSE node_id
      left_id == IF index = 0 THEN node_id ELSE sibling_id
      right == t.pages[right_id]
      left == t.pages[left_id]
      merged ==
        IF IsLeafPage(right)
          THEN [WithArray(left, left.array_ \o right.array_)
                  EXCEPT !.next_page_id_ = right.next_page_id_]
          ELSE WithArray(left, left.array_ \o SetKeyAt(right, 0, k).array_)
      emptied == IF IsLeafPage(right) THEN WithArray(right, <<>>)
                 ELSE WithArray(SetKeyAt(right, 0, k), <<>>)
      pgs == [t.pages EXCEPT ![left_id] = merged, ![right_id] = emptied]
      moved == [t EXCEPT !.pages = IF IsLeafPage(right) THEN pgs
                                   ELSE SetParentPageId(pgs, ChildrenOf(right.array_), left_id),
                         !.log = @ \o (IF IsLeafPage(right) THEN <<>>
                                       ELSE ChildCalls(right.array_))]
      above == DeleteEntry(moved, parent_id, k)
  IN [above EXCEPT !.deleted = @ \cup {right_id}]

DeleteEntry(t, id, key) ==
  LET pagec == IF IsLeafPage(t.pages[id]) THEN DeleteInLeaf(t.pages[id], key)
               ELSE InternalDeleteNode(t.pages[id], key)
      t1 == [t EXCEPT !.pages[id] = pagec]
      needs_rebalancing == pagec.size_ < GetMinSize(pagec) /\ ~IsRootPage(pagec)
      is_root_and_single_entry ==
        IsRootPage(pagec) /\ pagec.size_ = 1 /\ ~IsLeafPage(pagec)
  IN IF IsRootPage(pagec) /\ pagec.size_ > 1 THEN ReleaseLatchFromQueue(t1)
     ELSE IF IsRootPage(pagec) /\ IsLeafPage(pagec) /\ pagec.size_ = 0
       THEN ReleaseLatchFromQueue(
              [UpdateRootPageId([t1 EXCEPT !.root = INVALID_PAGE_ID], 0)
                 EXCEPT !.deleted = @ \cup {id}])
     ELSE IF is_root_and_single_entry
       THEN LET newroot == ValueAt(pagec, 0)
                rooted == [Did(t1, <<Ev("FetchPage", newroot), Ev("SetParentPageId", newroot)>>)
                             EXCEPT !.pages[newroot].parent_page_id_ = INVALID_PAGE_ID,
                                    !.root = newroot]
            IN [Did(ReleaseLatchFromQueue(UpdateRootPageId(rooted, 0)),
                    <<Ev("UnpinPage", newroot)>>)
                  EXCEPT !.deleted = @ \cup {id}]
     ELSE IF needs_rebalancing
       THEN LET parent_id == pagec.parent_page_id_
                parentpage == t1.pages[parent_id]
                index == ValueIndex(parentpage, id)
                siblingindex == IF index > 0 THEN index - 1 ELSE index + 1
                sibling_id == ValueAt(parentpage, siblingindex)
                siblingpage == t1.pages[sibling_id]
                key_at == IF index > 0 THEN KeyAt(parentpage, index)
                          ELSE KeyAt(parentpage, index + 1)
                is_merge == IF IsLeafPage(pagec)
                              THEN siblingpage.size_ + pagec.size_ <= pagec.max_size_ - 1
                              ELSE siblingpage.size_ + pagec.size_ <= pagec.max_size_
                latched == Did(t1, <<Ev("FetchPage", parent_id), Ev("FetchPage", sibling_id),
                                     Ev("WLatch", sibling_id)>>)
                balanced == IF is_merge
                              THEN Coalesce(latched, id, sibling_id, parent_id, index, key_at)
                              ELSE Redistribute(latched, id, sibling_id, parent_id, index)
            IN ReleaseLatchFromQueue(
                 Did(ReleaseLatchFromQueue(balanced),
                     <<Ev("UnpinPage", parent_id), Ev("WUnlatch", sibling_id),
                       Ev("UnpinPage", sibling_id)>>))
     ELSE ReleaseLatchFromQueue(t1)

\* BPlusTree::Remove: the tree it leaves; the pages of the transaction's deleted
\* page set are given back to the buffer pool
\* (DeletePage gives a page back when its pin count is zero)
RemoveReturn(d, pins) ==
  LET page_delete == SortedSeq(d.deleted)
      freed == {id \in d.deleted : ~BagIn(id, pins)}
  IN [d EXCEPT !.pages = [id \in (DOMAIN d.pages) \ freed |-> d.pages[id]],
               !.log = @ \o [i \in 1..Len(page_delete) |-> Ev("DeletePage", page_delete[i])],
               !.pins = pins,
               !.deleted = {}]

\* (the pin counts at the DeletePage calls)
RemoveUnpinned(t, d) == RemoveReturn(d, PinsAfter(t.pins, d.log))

\* a faulty variant of RemoveFrom: DeletePage is called before the leaf is
\* unlatched
RemoveFromLatched(t, found, key) ==
  LeafReturn(RemoveUnpinned(t, DeleteEntry(found.tree, found.leaf, key)), found.leaf)

\* (Remove from the leaf FindLeafPageCon has found)
RemoveFrom(t, found, key) ==
  RemoveUnpinned(t, LeafReturn(DeleteEntry(found.tree, found.leaf, key), found.leaf))

RemoveCall(t, key) ==
  IF t.root = INVALID_PAGE_ID THEN ReleaseLatchFromQueue(RootLocked(t))
  ELSE RemoveFrom(t, FindLeafPageConOp(RootLocked(t), "DELETE", key), key)

\* the tree of the state
Tree ==
  [root |-> root_page_id_, pages |-> pages, next |-> next_page_id_,
   leaf_max |-> leaf_max_size_, deleted |-> {}, page_set |-> <<>>, log |-> <<>>,
   pins |-> pin_count_]

NoCall == [op |-> "none", result |-> FALSE]

\* no thread holds the root latch or a page latch, so a writer gets them all
NoReader == ~Crashed /\ \A th \in Threads : root_rlock[th] = 0 /\ rlatch[th] = {}

\* a call of Insert(key, value) in a buffer pool with the page ids up to max_page
Insert(key, value, max_page) ==
  /\ NoReader
  /\ \E r \in {InsertCall(Tree, key, value)} :
        /\ r.tree.next <= max_page + 1
        /\ root_page_id_' = r.tree.root
        /\ pages' = r.tree.pages
        /\ next_page_id_' = r.tree.next
        /\ wr_call' = [op |-> "Insert", result |-> r.result]
        /\ pin_count_' = PinsAfter(pin_count_, r.tree.log)
        /\ header_calls' = HeaderCalls(r.tree.log)
        /\ root_acquired' = (root_acquired
                               \/ \E i \in 1..Len(r.tree.log) : r.tree.log[i].call = "InsertRecord")
        /\ wr_delete' = DeleteCalls(r.tree.log)
        /\ wr_unlatched' = UnlatchedWrites(r.tree.log)
        /\ latest' = IF r.result
                       THEN [latest EXCEPT ![key] = [value |-> {value}, pending |-> @.pending + 1]]
                       ELSE latest
  /\ UNCHANGED <<leaf_max_size_, root_rlock, rlatch, rd_pc, rd_op, rd_key, rd_page,
                 rd_result, rd_index, wr_pc, wr_key, wlatch, wr_wait, it_vars, lm_vars,
                 det_vars>>

\* a call of Insert(key, value) that ends in the OUT_OF_MEMORY exception of
\* StartNewTree, Split or InsertIntoParent: nothing in the tree catches it, the
\* thread leaves Insert at the throw with the latches and the pins it holds
\* there
InsertOutOfMemory(key, value, max_page) ==
  /\ NoReader
  /\ wr_pc = "idle"
  /\ \E r \in {InsertThrow(Tree, key, value, max_page)} :
        /\ r.thrown
        /\ root_page_id_' = r.tree.root
        /\ pages' = r.tree.pages
        /\ next_page_id_' = r.tree.next
        /\ pin_count_' = PinsAfter(pin_count_, r.tree.log)
        /\ header_calls' = HeaderCalls(r.tree.log)
        /\ root_acquired' = (root_acquired
                               \/ \E i \in 1..Len(r.tree.log) : r.tree.log[i].call = "InsertRecord")
        /\ wr_delete' = DeleteCalls(r.tree.log)
        /\ wr_unlatched' = UnlatchedWrites(r.tree.log)
        /\ wlatch' = LatchesHeld(r.tree.log, Len(r.tree.log) + 1)
  /\ wr_call' = [op |-> "OUT_OF_MEMORY", result |-> FALSE]
  /\ wr_pc' = "thrown"
  /\ wr_key' = key
  /\ UNCHANGED <<leaf_max_size_, latest, root_rlock, rlatch, rd_pc, rd_op, rd_key, rd_page,
                 rd_result, rd_index, wr_wait, it_vars, lm_vars, det_vars>>

\* a call of Remove(key)
Remove(key) ==
  /\ NoReader
  /\ \E r \in {RemoveCall(Tree, key)} :
        /\ root_page_id_' = r.root
        /\ pages' = r.pages
        /\ pin_count_' = r.pins
        /\ header_calls' = HeaderCalls(r.log)
        /\ wr_delete' = DeleteCalls(r.log)
        /\ wr_unlatched' = UnlatchedWrites(r.log)
  /\ wr_call' = [op |-> "Remove", result |-> FALSE]
  /\ latest' = [latest EXCEPT ![key] =
                                [value |-> {}, pending |-> IF @.pending > 0 THEN @.pending - 1 ELSE 0]]
  /\ UNCHANGED <<next_page_id_, leaf_max_size_, root_acquired, root_rlock, rlatch, rd_pc, rd_op,
                 rd_key, rd_page, rd_result, rd_index, wr_pc, wr_key, wlatch, wr_wait,
                 it_vars, lm_vars, det_vars>>

(***************************************************************************)
(* Remove step by step, for a key whose leaf falls under its minimum: the  *)
(* call stops before siblingoriginalpage->WLatch() of DeleteEntry with the *)
(* latches of its descent held, and goes on when no thread holds a latch   *)
(* of the sibling.                                                         *)
(***************************************************************************)
\* Remove(key) up to siblingoriginalpage->WLatch(): the calls made so far, the
\* sibling, and whether the call gets there at all
RemoveUpToSibling(t, key) ==
  LET found == FindLeafPageConOp(RootLocked(t), "DELETE", key)
      pagec == DeleteInLeaf(t.pages[found.leaf], key)
      parentpage == t.pages[pagec.parent_page_id_]
      index == ValueIndex(parentpage, found.leaf)
      siblingindex == IF index > 0 THEN index - 1 ELSE index + 1
      needs_rebalancing == pagec.size_ < GetMinSize(pagec) /\ ~IsRootPage(pagec)
  IN [needs_rebalancing |-> needs_rebalancing,
      sibling |-> IF needs_rebalancing THEN ValueAt(parentpage, siblingindex)
                  ELSE INVALID_PAGE_ID,
      log |-> IF needs_rebalancing
                THEN found.tree.log \o <<Ev("FetchPage", pagec.parent_page_id_),
                                         Ev("FetchPage", ValueAt(parentpage, siblingindex))>>
                ELSE found.tree.log]

\* the pages a log write-latches
WLatched(log) == {log[i].page : i \in {j \in 1..Len(log) : log[j].call = "WLatch"}}

\* no thread holds a read latch of one of the pages
NoReaderOf(ids) == \A th \in Threads : rlatch[th] \cap ids = {}

\* Remove(key) from root_page_id_latch_.WLock() to the WLatch of the sibling in
\* DeleteEntry: the descent write-latches its pages, the entry leaves the leaf,
\* parent and sibling are fetched.  The leaf stays write-latched to the end of
\* the call, and pages shows what the call writes when the call ends.
RemoveToSibling(key) ==
  /\ ~Crashed
  /\ wr_pc = "idle"
  /\ root_page_id_ # INVALID_PAGE_ID
  /\ \A th \in Threads : root_rlock[th] = 0
  /\ \E r \in {RemoveUpToSibling(Tree, key)} :
        /\ r.needs_rebalancing
        /\ NoReaderOf(WLatched(r.log))
        /\ wlatch' = LatchesHeld(r.log, Len(r.log) + 1)
        /\ wr_wait' = r.sibling
        /\ pin_count_' = PinsAfter(pin_count_, r.log)
  /\ wr_pc' = "sibling"
  /\ wr_key' = key
  /\ UNCHANGED <<root_page_id_, pages, next_page_id_, leaf_max_size_, wr_call, header_calls,
                 root_acquired, wr_delete, wr_unlatched, latest, root_rlock, rlatch, rd_pc,
                 rd_op, rd_key, rd_page, rd_result, rd_index, it_vars, lm_vars, det_vars>>

\* Remove from the WLatch of the sibling to its return: the call goes on when
\* no thread holds a latch of the sibling (nor of a page the call latches
\* after it)
RemoveFromSibling ==
  /\ wr_pc = "sibling"
  /\ \E r \in {RemoveCall([Tree EXCEPT !.pins = pin_count_
                               (-) PinsAfter(EmptyBag, RemoveUpToSibling(Tree, wr_key).log)],
                          wr_key)} :
        /\ NoReaderOf(WLatched(r.log))
        /\ root_page_id_' = r.root
        /\ pages' = r.pages
        /\ pin_count_' = r.pins
        /\ header_calls' = HeaderCalls(r.log)
        /\ wr_delete' = DeleteCalls(r.log)
        /\ wr_unlatched' = UnlatchedWrites(r.log)
  /\ wr_call' = [op |-> "Remove", result |-> FALSE]
  /\ latest' = [latest EXCEPT ![wr_key] =
                   [value |-> {}, pending |-> IF @.pending > 0 THEN @.pending - 1 ELSE 0]]
  /\ wr_pc' = "idle"
  /\ wlatch' = {}
  /\ wr_wait' = INVALID_PAGE_ID
  /\ UNCHANGED <<next_page_id_, leaf_max_size_, root_acquired, wr_key, root_rlock, rlatch, rd_pc,
                 rd_op, rd_key, rd_page, rd_result, rd_index, it_vars, lm_vars, det_vars>>

\* the pairs the leaves of the tree hold
LeafIds(pgs) == {id \in DOMAIN pgs : IsLeafPage(pgs[id])}
StoredPairs(pgs) ==
  UNION {{pgs[id].array_[i] : i \in 1..pgs[id].size_} : id \in LeafIds(pgs)}
StoredKeys(pgs) == {pr.first : pr \in StoredPairs(pgs)}

\* the writer before the first call of a specification: the tree was built by
\* inserts alone
WriterInit(leaf_max_sizes) ==
  /\ next_page_id_ = Max(DOMAIN pages \cup {0}) + 1
  /\ leaf_max_size_ \in leaf_max_sizes
  /\ wr_call = NoCall
  /\ header_calls = <<>>
  /\ root_acquired = (root_page_id_ # INVALID_PAGE_ID)
  /\ wr_delete = DeleteCalls(<<>>)
  /\ wr_pc = "idle"
  /\ wr_key = 0
  /\ wlatch = {}
  /\ wr_wait = INVALID_PAGE_ID
  /\ wr_unlatched = {}
  /\ latest = [k \in Keys |->
                 LET values == {pr.second : pr \in {q \in StoredPairs(pages) : q.first = k}}
                 IN [value |-> values, pending |-> Cardinality(values)]]

(***************************************************************************)
(* The second lock_manager.cpp of the repository (src/concurrency): its    *)
(* LockTable and LockRow open with the isolation-level checks, its         *)
(* GrantLock does not read upgrading_, and the wait loop of its LockRow    *)
(* is one loop for new requests and upgrades.  UnlockTable, UnlockRow and  *)
(* RunCycleDetection do what the ones above do.                            *)
(***************************************************************************)
\* GrantLock: the loop over request_queue_ is all of it
GrantLockAlt(q, me) == GrantScan(q, 1, me)

\* the enqueue and the first pass of the wait loop
EnterQueueAlt(t, mode, o, q, pos, isUpgrade, oldMode) ==
  IF GrantLockAlt(q, pos)
    THEN /\ request_queue_' = [request_queue_ EXCEPT ![o] = [q EXCEPT ![pos].granted_ = TRUE]]
         /\ upgrading_' = IF isUpgrade THEN [upgrading_ EXCEPT ![o] = INVALID_TXN_ID]
                          ELSE upgrading_
         /\ UpdateLockSets(t, o, oldMode, mode)
         /\ notified' = IF mode # "X" THEN NotifyAll(notified, waiting, o) ELSE notified
         /\ last_result' = [last_result EXCEPT ![t] = "true"]
         /\ UNCHANGED <<txn_state, waiting, wait_upgrade>>
    ELSE /\ request_queue_' = [request_queue_ EXCEPT ![o] = q]
         /\ upgrading_' = IF isUpgrade THEN [upgrading_ EXCEPT ![o] = t] ELSE upgrading_
         /\ UpdateLockSets(t, o, oldMode, "none")
         /\ waiting' = [waiting EXCEPT ![t] = o]
         /\ wait_upgrade' = [wait_upgrade EXCEPT ![t] = isUpgrade]
         /\ notified' = [notified EXCEPT ![t] = FALSE]
         /\ last_result' = [last_result EXCEPT ![t] = "blocked"]
         /\ UNCHANGED txn_state

\* the scan for a request of the same transaction, the upgrade, the enqueue
AcquireAlt(t, mode, o) ==
  LET q == request_queue_[o]
      mine == {i \in 1..Len(q) : q[i].txn_id_ = t}
  IN /\ lock_map' = lock_map \cup {o}
     /\ IF mine # {}
          THEN LET i == Min(mine)
                   old == q[i].lock_mode_
               IN IF old = mode
                    THEN /\ last_result' = [last_result EXCEPT ![t] = "true"]
                         /\ UNCHANGED <<txn_state, table_lock_set, row_lock_set, request_queue_,
                                        upgrading_, waiting, wait_upgrade, notified, arrival>>
                  ELSE IF upgrading_[o] # INVALID_TXN_ID
                    THEN /\ AbortWith(t, "UPGRADE_CONFLICT")
                         /\ UNCHANGED <<table_lock_set, row_lock_set, request_queue_,
                                        upgrading_, waiting, wait_upgrade, notified, arrival>>
                  ELSE IF ~CanUpgrade(old, mode)
                    THEN /\ AbortWith(t, "INCOMPATIBLE_UPGRADE")
                         /\ UNCHANGED <<table_lock_set, row_lock_set, request_queue_,
                                        upgrading_, waiting, wait_upgrade, notified, arrival>>
                  ELSE LET q1 == RemoveAt(q, i)
                           pos == UpgradePos(q1)
                           q2 == InsertAt(q1, pos, NewRequest(t, mode))
                       IN /\ EnterQueueAlt(t, mode, o, q2, pos, TRUE, old)
                          /\ arrival' = [arrival EXCEPT ![o] = Append(DropTxn(@, t), t)]
          ELSE LET q2 == Append(q, NewRequest(t, mode))
               IN /\ EnterQueueAlt(t, mode, o, q2, Len(q2), FALSE, "none")
                  /\ arrival' = [arrival EXCEPT ![o] = Append(@, t)]

LockTableAlt(t, mode, oid) ==
  /\ waiting[t] = NoObj
  /\ UNCHANGED <<isolation, unlocked_sx, det_vars, tree_vars>>
  /\ IF IsolationCheck(t, mode) # "ok"
       THEN /\ AbortWith(t, IsolationCheck(t, mode))
            /\ UNCHANGED <<table_lock_set, row_lock_set, lock_map, request_queue_,
                           upgrading_, waiting, wait_upgrade, notified, arrival>>
     ELSE det_pc # "build" /\ AcquireAlt(t, mode, Tbl(oid))

LockRowAlt(t, mode, oid, rid) ==
  /\ waiting[t] = NoObj
  /\ UNCHANGED <<isolation, unlocked_sx, det_vars, tree_vars>>
  /\ IF mode \in {"IX", "IS", "SIX"}
       THEN /\ AbortWith(t, "ATTEMPTED_INTENTION_LOCK_ON_ROW")
            /\ UNCHANGED <<table_lock_set, row_lock_set, lock_map, request_queue_,
                           upgrading_, waiting, wait_upgrade, notified, arrival>>
     ELSE IF IsolationCheck(t, mode) # "ok"
       THEN /\ AbortWith(t, IsolationCheck(t, mode))
            /\ UNCHANGED <<table_lock_set, row_lock_set, lock_map, request_queue_,
                           upgrading_, waiting, wait_upgrade, notified, arrival>>
     ELSE IF TableLockCheck(t, mode, oid) # "ok"
       THEN /\ AbortWith(t, TableLockCheck(t, mode, oid))
            /\ UNCHANGED <<table_lock_set, row_lock_set, lock_map, request_queue_,
                           upgrading_, waiting, wait_upgrade, notified, arrival>>
     ELSE det_pc # "build" /\ AcquireAlt(t, mode, Row(rid))

\* a thread blocked in cv_.wait owns the latch again.  LockTable has a wait
\* loop for upgrades, which sets upgrading_ back when the transaction is
\* ABORTED; the one wait loop of LockRow sets it back after the grant only
ResumeAlt(t) ==
  LET o == waiting[t]
      q == request_queue_[o]
      me == FirstIdx(q, {k \in 1..Len(q) : q[k].txn_id_ = t /\ ~q[k].granted_})
      mode == q[me].lock_mode_
  IN /\ UNCHANGED <<isolation, unlocked_sx, lock_map, det_vars, tree_vars>>
     /\ IF txn_state[t] = "ABORTED"
          THEN /\ upgrading_' = IF wait_upgrade[t] /\ IsTable(o)
                                  THEN [upgrading_ EXCEPT ![o] = INVALID_TXN_ID]
                                  ELSE upgrading_
               /\ request_queue_' = [request_queue_ EXCEPT ![o] = RemoveAt(q, me)]
               /\ arrival' = [arrival EXCEPT ![o] = DropTxn(@, t)]
               /\ waiting' = [waiting EXCEPT ![t] = NoObj]
               /\ wait_upgrade' = [wait_upgrade EXCEPT ![t] = FALSE]
               /\ notified' = [NotifyAll(notified, waiting', o) EXCEPT ![t] = FALSE]
               /\ last_result' = [last_result EXCEPT ![t] = "false"]
               /\ UNCHANGED <<txn_state, table_lock_set, row_lock_set>>
        ELSE IF GrantLockAlt(q, me)
          THEN /\ upgrading_' = IF wait_upgrade[t] THEN [upgrading_ EXCEPT ![o] = INVALID_TXN_ID]
                                ELSE upgrading_
               /\ request_queue_' = [request_queue_ EXCEPT ![o] = [q EXCEPT ![me].granted_ = TRUE]]
               /\ UpdateLockSets(t, o, "none", mode)
               /\ waiting' = [waiting EXCEPT ![t] = NoObj]
               /\ wait_upgrade' = [wait_upgrade EXCEPT ![t] = FALSE]
               /\ notified' = [(IF mode # "X" THEN NotifyAll(notified, waiting', o) ELSE notified)
                                 EXCEPT ![t] = FALSE]
               /\ last_result' = [last_result EXCEPT ![t] = "true"]
               /\ UNCHANGED <<txn_state, arrival>>
        ELSE /\ notified' = [notified EXCEPT ![t] = FALSE]
             /\ UNCHANGED <<txn_state, table_lock_set, row_lock_set, request_queue_, upgrading_,
                            waiting, wait_upgrade, last_result, arrival>>

WakeAlt(t) == waiting[t] # NoObj /\ notified[t] /\ ResumeAlt(t)

(***************************************************************************)
(* Specifications.                                                         *)
(***************************************************************************)
LMInit(isos) ==
  /\ txn_state = [t \in AllTxns |-> "GROWING"]
  /\ isolation \in [AllTxns -> isos]
  /\ table_lock_set = [t \in AllTxns |-> [m \in LockModes |-> {}]]
  /\ row_lock_set = [t \in AllTxns |-> [m \in {"S", "X"} |-> {}]]
  /\ lock_map = {}
  /\ request_queue_ = [o \in AllObjs |-> <<>>]
  /\ upgrading_ = [o \in AllObjs |-> INVALID_TXN_ID]
  /\ waiting = [t \in AllTxns |-> NoObj]
  /\ wait_upgrade = [t \in AllTxns |-> FALSE]
  /\ notified = [t \in AllTxns |-> FALSE]
  /\ last_result = [t \in AllTxns |-> "none"]
  /\ arrival = [o \in AllObjs |-> <<>>]
  /\ unlocked_sx = [t \in AllTxns |-> FALSE]
  /\ waits_for_ = NoGraph
  /\ txn_set_ = {}
  /\ map_txn_obj = [t \in AllTxns |-> NoObj]
  /\ det_pc = "sleep"
  /\ det_todo = {}
  /\ built_graph = NoGraph
  /\ last_victim = NoVictim

\* the queue specification: MaxTxn transactions and every lock mode on table 0
QTxns == 1..MaxTxn

Init ==
  /\ LMInit({"REPEATABLE_READ"})
  /\ TreeInit({[root |-> INVALID_PAGE_ID, pages |-> <<>>]})
  /\ WriterInit({MaxLeafMaxSize})

Next ==
  \/ \E t \in QTxns, m \in LockModes : LockTable(t, m, 0)
  \/ \E t \in QTxns : UnlockTable(t, 0)
  \/ \E t \in QTxns : Wake(t)
  \/ \E t \in QTxns : SpuriousWake(t)

Spec == Init /\ [][Next]_vars

\* the deadlock specification: MaxDlTxn transactions in their growing phase
\* taking X locks on the tables 0..MaxDlTable, and the detector
DlTxns == 1..MaxDlTxn
DlTables == {Tbl(oid) : oid \in AllTables}

DlNext ==
  \/ \E t \in DlTxns, oid \in AllTables : txn_state[t] = "GROWING" /\ LockTable(t, "X", oid)
  \/ \E t \in DlTxns : Wake(t)
  \/ BuildStart(DlTables)
  \/ \E o \in DlTables : BuildQueue(o)
  \/ BuildDone
  \/ AbortVictim
  \/ EndPass

DlSpec == Init /\ [][DlNext]_vars

\* the shared-lock deadlock specification: MaxTxn transactions in their growing
\* phase taking S and X locks on the tables 0..MaxShTable, and the detector
ShTables == {Tbl(oid) : oid \in 0..MaxShTable}

ShNext ==
  \/ \E t \in QTxns, m \in {"S", "X"}, oid \in 0..MaxShTable :
        txn_state[t] = "GROWING" /\ LockTable(t, m, oid)
  \/ \E t \in QTxns : Wake(t)
  \/ BuildStart(ShTables)
  \/ \E o \in ShTables : BuildQueue(o)
  \/ BuildDone
  \/ AbortVictim
  \/ EndPass

ShSpec == Init /\ [][ShNext]_vars

\* the two-transaction specification: transactions 1 and 2 take X locks on the
\* tables 0 and 1 and release the locks they hold; the detector runs, and a
\* notified thread and the detector thread are scheduled in the end
TwoTxns == {1, 2}
TwoTables == {Tbl(0), Tbl(1)}

TwoLock == \E t \in TwoTxns, oid \in {0, 1} : txn_state[t] = "GROWING" /\ LockTable(t, "X", oid)
TwoUnlock == \E t \in TwoTxns, oid \in {0, 1} : oid \in table_lock_set[t]["X"] /\ UnlockTable(t, oid)
TwoWake == \E t \in TwoTxns : Wake(t)
TwoSpuriousWake == \E t \in TwoTxns : SpuriousWake(t)
TwoBuildStart == BuildStart(TwoTables)
TwoBuildQueue == \E o \in TwoTables : BuildQueue(o)

TwoNext ==
  \/ TwoLock
  \/ TwoUnlock
  \/ TwoWake
  \/ TwoSpuriousWake
  \/ TwoBuildStart
  \/ TwoBuildQueue
  \/ BuildDone
  \/ AbortVictim
  \/ EndPass

FairTwoSpec ==
  /\ Init
  /\ [][TwoNext]_vars
  /\ WF_vars(TwoWake)
  /\ WF_vars(TwoBuildStart)
  /\ WF_vars(TwoBuildQueue)
  /\ WF_vars(BuildDone)
  /\ WF_vars(AbortVictim)
  /\ WF_vars(EndPass)

\* the wake-up specification: MaxTxn transactions take S and X locks on
\* table 0, the transactions 1 and 2 X locks on table 1 as well, while they
\* are growing, they release the locks they hold, and the detector runs.  Every thread that was notified is scheduled, every
\* transaction that holds a lock and is not blocked releases it in the end
\* (an aborted one too, as TransactionManager::Abort does), and the detector
\* thread is scheduled
LiveLock(t) ==
  /\ txn_state[t] = "GROWING"
  /\ \/ \E m \in {"S", "X"} : LockTable(t, m, 0)
     \/ t \in TwoTxns /\ LockTable(t, "X", 1)
LiveUnlock(t) ==
  \E oid \in {0, 1} : (\E m \in LockModes : oid \in table_lock_set[t][m]) /\ UnlockTable(t, oid)
LiveBuildStart == BuildStart(TwoTables)
LiveBuildQueue == \E o \in TwoTables : BuildQueue(o)

LiveNext ==
  \/ \E t \in QTxns : LiveLock(t)
  \/ \E t \in QTxns : LiveUnlock(t)
  \/ \E t \in QTxns : Wake(t)
  \/ LiveBuildStart
  \/ LiveBuildQueue
  \/ BuildDone
  \/ AbortVictim
  \/ EndPass

\* one step of the detector thread; it is enabled in every state
LiveDetector == LiveBuildStart \/ LiveBuildQueue \/ BuildDone \/ AbortVictim \/ EndPass

\* ENABLED <<Wake(t)>>_vars and ENABLED <<LiveUnlock(t)>>_vars, written out
WakeEnabled(t) == waiting[t] # NoObj /\ notified[t]
LiveUnlockEnabled(t) ==
  /\ waiting[t] = NoObj
  /\ det_pc # "build"
  /\ \E oid \in {0, 1} : \E m \in LockModes : oid \in table_lock_set[t][m]

\* WF_vars(Wake(t)), SF_vars(LiveUnlock(t)) (a pass of the detector keeps the
\* map latches for a while, again and again) and WF_vars(LiveDetector), with
\* the ENABLED of each written out as above
LiveSpec ==
  /\ Init
  /\ [][LiveNext]_vars
  /\ \A t \in QTxns : []<>(~WakeEnabled(t)) \/ []<><<Wake(t)>>_vars
  /\ \A t \in QTxns : <>[](~LiveUnlockEnabled(t)) \/ []<><<LiveUnlock(t)>>_vars
  /\ []<><<LiveDetector>>_vars

\* the row-lock specification: MaxRowTxn transactions under Read-Committed lock
\* and unlock table 0 in every mode and row 0 in S and X, and the detector runs
RowTxns == 1..MaxRowTxn
RowObjs == {Tbl(0), Row(0)}

RowInit ==
  /\ LMInit({"READ_COMMITTED"})
  /\ TreeInit({[root |-> INVALID_PAGE_ID, pages |-> <<>>]})
  /\ WriterInit({MaxLeafMaxSize})

RowNext ==
  \/ \E t \in RowTxns, m \in LockModes : LockTable(t, m, 0)
  \/ \E t \in RowTxns, m \in {"S", "X"} : LockRow(t, m, 0, 0)
  \/ \E t \in RowTxns : UnlockTable(t, 0)
  \/ \E t \in RowTxns : UnlockRow(t, 0, 0)
  \/ \E t \in RowTxns : Wake(t)
  \/ BuildStart(RowObjs)
  \/ \E o \in RowObjs : BuildQueue(o)
  \/ BuildDone
  \/ AbortVictim
  \/ EndPass

RowSpec == RowInit /\ [][RowNext]_vars

\* the row-lock specification of the second lock_manager.cpp: as the row-lock
\* specification, with the LockTable, LockRow and wait loops of that file;
\* a transaction that was aborted asks for no lock any more
NotEnded(t) == txn_state[t] \in {"GROWING", "SHRINKING"}

AltNext ==
  \/ \E t \in RowTxns, m \in LockModes : NotEnded(t) /\ LockTableAlt(t, m, 0)
  \/ \E t \in RowTxns, m \in {"S", "X"} : NotEnded(t) /\ LockRowAlt(t, m, 0, 0)
  \/ \E t \in RowTxns : UnlockTable(t, 0)
  \/ \E t \in RowTxns : UnlockRow(t, 0, 0)
  \/ \E t \in RowTxns : WakeAlt(t)
  \/ BuildStart(RowObjs)
  \/ \E o \in RowObjs : BuildQueue(o)
  \/ BuildDone
  \/ AbortVictim
  \/ EndPass

AltSpec == RowInit /\ [][AltNext]_vars

\* the phase specification: MaxPhaseTxn transactions, the first of any
\* isolation level and the others under Repeatable-Read, lock table 0 and
\* row 0 in every mode, unlock them and commit
PhaseTxns == 1..MaxPhaseTxn

PhaseInit ==
  /\ LMInit(IsolationLevels)
  /\ \A t \in AllTxns \ {Min(PhaseTxns)} : isolation[t] = "REPEATABLE_READ"
  /\ TreeInit({[root |-> INVALID_PAGE_ID, pages |-> <<>>]})
  /\ WriterInit({MaxLeafMaxSize})

PhaseNext ==
  \/ \E t \in PhaseTxns, m \in LockModes : LockTable(t, m, 0)
  \/ \E t \in PhaseTxns, m \in LockModes : LockRow(t, m, 0, 0)
  \/ \E t \in PhaseTxns : UnlockTable(t, 0)
  \/ \E t \in PhaseTxns : UnlockRow(t, 0, 0)
  \/ \E t \in PhaseTxns : Wake(t)
  \/ \E t \in PhaseTxns : TxnCommit(t)

PhaseSpec == PhaseInit /\ [][PhaseNext]_vars

\* the lookup specification: MaxThread threads call GetValue and Begin(key)
\* with the keys 0..MaxKey on the trees that ascending inserts leave
TreeSpecInit ==
  /\ LMInit({"REPEATABLE_READ"})
  /\ TreeInit(TreesAfterInserts)
  /\ WriterInit({MaxLeafMaxSize})

TreeNext ==
  \/ \E th \in Threads, key \in Keys : GetValue(th, key)
  \/ \E th \in Threads, key \in Keys : BeginKey(th, key)
  \/ \E th \in Threads : FindLeafPageCon(th)
  \/ \E th \in Threads : RLatch(th)
  \/ \E th \in Threads : Descend(th)
  \/ \E th \in Threads : GetValueReturn(th)
  \/ \E th \in Threads : BeginReturn(th)
  \/ \E th \in Threads : IteratorDestroy(th)

TreeSpec == TreeSpecInit /\ [][TreeNext]_vars

\* the iterator specification: one thread calls Begin(key) with the keys
\* 0..MaxKey on the trees that ascending inserts leave and walks the iterator
\* to the end
IterThreads == {Min(Threads)}

IterNext ==
  \/ \E th \in IterThreads, key \in Keys : BeginKey(th, key)
  \/ \E th \in IterThreads : FindLeafPageCon(th)
  \/ \E th \in IterThreads : RLatch(th)
  \/ \E th \in IterThreads : Descend(th)
  \/ \E th \in IterThreads : BeginReturn(th)
  \/ \E th \in IterThreads : IteratorDeref(th)
  \/ \E th \in IterThreads : IteratorIncrement(th)
  \/ \E th \in IterThreads : IteratorMove(th)
  \/ \E th \in IterThreads : IteratorDestroy(th)

IterSpec == TreeSpecInit /\ [][IterNext]_vars

\* the writer specification: one thread calls Insert and Remove with the keys
\* 1..MaxWrKey, each key with its RID, on a tree constructed with a leaf max
\* size of MinLeafMaxSize..MaxLeafMaxSize
WrInit ==
  /\ LMInit({"REPEATABLE_READ"})
  /\ TreeInit({[root |-> INVALID_PAGE_ID, pages |-> <<>>]})
  /\ WriterInit(MinLeafMaxSize..MaxLeafMaxSize)

WrNext ==
  \/ \E key \in WrKeys : Insert(key, RidOf(key), MaxPageId)
  \/ \E key \in WrKeys : Remove(key)

WrSpec == WrInit /\ [][WrNext]_vars

\* the out-of-memory specification: one thread calls Insert and Remove of the
\* keys 1..MaxWrKey on a buffer pool that hands out the page ids up to
\* MaxOomPage; the Insert that needs one more page throws, and the thread
\* makes no call after the exception
OomNext ==
  \/ \E key \in WrKeys : wr_pc = "idle" /\ Insert(key, RidOf(key), MaxOomPage)
  \/ \E key \in WrKeys : wr_pc = "idle" /\ Remove(key)
  \/ \E key \in WrKeys : InsertOutOfMemory(key, RidOf(key), MaxOomPage)

OomSpec == WrInit /\ [][OomNext]_vars

\* the buffer-pool specification: one thread builds a tree with Insert and
\* Remove of the keys 1..MaxPoolKey (leaf_max_size MinLeafMaxSize, page ids up
\* to MaxPoolPage), then calls GetValue and Begin(key) with the least and the
\* greatest key and walks and destroys the iterators
PoolThread == Min(Threads)
PoolKeys == 1..MaxPoolKey
PoolReadKeys == {Min(PoolKeys), Max(PoolKeys)}

PoolInit ==
  /\ LMInit({"REPEATABLE_READ"})
  /\ TreeInit({[root |-> INVALID_PAGE_ID, pages |-> <<>>]})
  /\ WriterInit({MinLeafMaxSize})

PoolInsert(key) == rd_op[PoolThread] = "none" /\ Insert(key, RidOf(key), MaxPoolPage)
PoolRemove(key) == rd_op[PoolThread] = "none" /\ Remove(key)

PoolNext ==
  \/ \E key \in PoolKeys : PoolInsert(key)
  \/ \E key \in PoolKeys : PoolRemove(key)
  \/ \E key \in PoolReadKeys : GetValue(PoolThread, key)
  \/ \E key \in PoolReadKeys : BeginKey(PoolThread, key)
  \/ FindLeafPageCon(PoolThread)
  \/ RLatch(PoolThread)
  \/ Descend(PoolThread)
  \/ GetValueReturn(PoolThread)
  \/ BeginReturn(PoolThread)
  \/ IteratorDeref(PoolThread)
  \/ IteratorIncrement(PoolThread)
  \/ IteratorMove(PoolThread)
  \/ IteratorDestroy(PoolThread)

PoolSpec == PoolInit /\ [][PoolNext]_vars

\* the specification of lookups beside the writer: one thread calls GetValue
\* with the keys 1..MaxConKey and goes through it step by step; between its
\* steps, whenever it holds no latch, another thread runs Insert and Remove
\* calls with the keys no lookup is under way for (leaf_max_size
\* MinLeafMaxSize, page ids up to MaxConPage)
ConThread == Min(Threads)
ConKeys == 1..MaxConKey

ConInit ==
  /\ LMInit({"REPEATABLE_READ"})
  /\ TreeInit({[root |-> INVALID_PAGE_ID, pages |-> <<>>]})
  /\ WriterInit({MinLeafMaxSize})

\* no lookup of the key is under way
NotLookedUp(key) == \A th \in Threads : rd_pc[th] = "idle" \/ rd_key[th] # key

ConInsert(key) == NotLookedUp(key) /\ Insert(key, RidOf(key), MaxConPage)
ConRemove(key) == NotLookedUp(key) /\ Remove(key)

ConNext ==
  \/ \E key \in ConKeys : ConInsert(key)
  \/ \E key \in ConKeys : ConRemove(key)
  \/ \E key \in ConKeys : GetValue(ConThread, key)
  \/ FindLeafPageCon(ConThread)
  \/ RLatch(ConThread)
  \/ Descend(ConThread)
  \/ GetValueReturn(ConThread)

ConSpec == ConInit /\ [][ConNext]_vars

\* the latch specification: one thread calls GetValue with the greatest and
\* Begin(key) with the least of the keys 1..MaxConKey and walks the iterator,
\* each step by step and waiting for the latches the writer holds; another
\* thread calls Insert and Remove with the keys 1..MaxConKey (leaf_max_size
\* MinLeafMaxSize, page ids up to MaxLatchPage): as one step each when no thread holds a latch, and Remove of
\* a key whose leaf falls under its minimum in two steps as well, with the
\* WLatch of the sibling between them
LatchThread == Min(Threads)

\* the page whose latch the thread asks for in its next step (RLatch of
\* FindLeafPageCon, next_page->RLatch() of operator++): a set of one or no page
WantsLatch(th) ==
  IF rd_pc[th] \in {"root", "child"} THEN {rd_page[th]}
  ELSE IF /\ rd_pc[th] = "seen"
          /\ rd_index[th] + 1 = pages[rd_page[th]].size_
    THEN {pages[rd_page[th]].next_page_id_} \ {INVALID_PAGE_ID}
  ELSE {}

LatchInsert(key) == wr_pc = "idle" /\ Insert(key, RidOf(key), MaxLatchPage)
LatchRemove(key) == wr_pc = "idle" /\ Remove(key)
LatchGetValue(th, key) == nullptr \notin wlatch /\ GetValue(th, key)
LatchBeginKey(th, key) == nullptr \notin wlatch /\ BeginKey(th, key)
LatchRLatch(th) == rd_page[th] \notin wlatch /\ RLatch(th)
LatchIteratorIncrement(th) == WantsLatch(th) \cap wlatch = {} /\ IteratorIncrement(th)

LatchNext ==
  \/ \E key \in ConKeys : LatchInsert(key)
  \/ \E key \in ConKeys : LatchRemove(key)
  \/ \E key \in ConKeys : RemoveToSibling(key)
  \/ RemoveFromSibling
  \/ LatchGetValue(LatchThread, Max(ConKeys))
  \/ LatchBeginKey(LatchThread, Min(ConKeys))
  \/ FindLeafPageCon(LatchThread)
  \/ LatchRLatch(LatchThread)
  \/ Descend(LatchThread)
  \/ GetValueReturn(LatchThread)
  \/ BeginReturn(LatchThread)
  \/ IteratorDeref(LatchThread)
  \/ LatchIteratorIncrement(LatchThread)
  \/ IteratorMove(LatchThread)
  \/ IteratorDestroy(LatchThread)

LatchSpec == ConInit /\ [][LatchNext]_vars

\* the two-value specification: Insert is called with the keys 1..MaxDupKey,
\* each with its RID or with a second value; Remove with the same keys
DupKeys == 1..MaxDupKey
DupValues(key) == {RidOf(key), OtherRidOf(key)}

DupNext ==
  \/ \E key \in DupKeys : \E value \in DupValues(key) : Insert(key, value, MaxDupPageId)
  \/ \E key \in DupKeys : Remove(key)

DupSpec == WrInit /\ [][DupNext]_vars

(***************************************************************************)
(* Properties of the lock queues.                                          *)
(***************************************************************************)
\* the compatibility matrix as the specification gives it
MatrixCompatible(a, b) ==
  <<a, b>> \in {<<"IS", "IS">>, <<"IS", "IX">>, <<"IS", "S">>, <<"IS", "SIX">>,
                <<"IX", "IS">>, <<"IX", "IX">>, <<"S", "IS">>, <<"S", "S">>,
                <<"SIX", "IS">>}

HasGranted(q, t) == \E i \in 1..Len(q) : q[i].txn_id_ = t /\ q[i].granted_
HasUngranted(q, t) == \E i \in 1..Len(q) : q[i].txn_id_ = t /\ ~q[i].granted_
PosOf(q, t) == FirstIdx(q, {k \in 1..Len(q) : q[k].txn_id_ = t})
\* the thread of t is blocked in the wait loop of an upgrade
UpgradeWaiting(t) == waiting[t] # NoObj /\ wait_upgrade[t]
\* the thread of t is blocked and no notification is pending for it: its last
\* call of GrantLock returned false and the queue's cv_ was not signalled since
Settled(t) == waiting[t] # NoObj /\ ~notified[t]
\* t1 entered the queue of o before t2
Before(arr, t1, t2) ==
  \E i, j \in 1..Len(arr) : i < j /\ arr[i] = t1 /\ arr[j] = t2

\* C1: in every state and for every object, any two granted requests of the
\* object's queue that belong to different transactions have modes that are
\* compatible under the compatibility matrix.
C1_GrantedCompatible ==
  \A o \in AllObjs :
    LET q == request_queue_[o]
    IN \A i, j \in 1..Len(q) :
         (i # j /\ q[i].granted_ /\ q[j].granted_ /\ q[i].txn_id_ # q[j].txn_id_)
           => MatrixCompatible(q[i].lock_mode_, q[j].lock_mode_)

\* two transactions hold different modes on the object while a third one, whose
\* mode the held ones exclude, waits
C1_Witness ==
  \E o \in AllObjs :
    LET q == request_queue_[o]
    IN \E i, j, k \in 1..Len(q) :
         /\ q[i].granted_ /\ q[j].granted_ /\ ~q[k].granted_
         /\ q[i].txn_id_ # q[j].txn_id_
         /\ q[i].lock_mode_ # q[j].lock_mode_
         /\ ~MatrixCompatible(q[i].lock_mode_, q[k].lock_mode_)

\* C2 as the claim states it: while a transaction's upgrade call is blocked, the
\* object's queue contains a granted request of that transaction.
C2_UpgraderKeepsGrantedRequest ==
  \A t \in AllTxns :
    UpgradeWaiting(t) => HasGranted(request_queue_[waiting[t]], t)

C2_WindowState ==
  \A t \in AllTxns :
    UpgradeWaiting(t) =>
      LET o == waiting[t]
          q == request_queue_[o]
      IN /\ upgrading_[o] = t
         /\ ~HasGranted(q, t)
         /\ \A i \in 1..Len(q) : q[i].granted_ \/ PosOf(q, t) <= i

C2_WindowStep ==
  \A t \in AllTxns :
    (UpgradeWaiting(t) /\ waiting'[t] = waiting[t]) =>
      \A u \in AllTxns \ {t} :
        HasGranted(request_queue_'[waiting[t]], u) => HasGranted(request_queue_[waiting[t]], u)

\* C2, amended: while a transaction's upgrade call is blocked, its old granted
\* request is gone from the queue, the queue's upgrading_ names the transaction,
\* its upgrade request stands before every other ungranted request, and no other
\* transaction is granted a lock on the object.
C2_UpgradeWindowGuarded == [](C2_WindowState) /\ [][C2_WindowStep]_vars

\* an upgrade is blocked behind another holder while a third transaction waits
C2_Witness ==
  \E t \in AllTxns :
    /\ UpgradeWaiting(t)
    /\ LET q == request_queue_[waiting[t]]
       IN /\ Len(q) = 3
          /\ q[1].granted_ /\ q[1].txn_id_ # t
          /\ q[2].txn_id_ = t
          /\ ~q[3].granted_

C8_GrantStep ==
  \A o \in AllObjs : \A t \in AllTxns :
    (HasUngranted(request_queue_[o], t) /\ HasGranted(request_queue_'[o], t))
      => PosOf(request_queue_[o], t) = FirstIdx(request_queue_[o], {k \in 1..Len(request_queue_[o]) : Ungranted(request_queue_[o][k])})

HeldAtGrant(o, t2) ==
  {request_queue_'[o][i].lock_mode_ :
     i \in {k \in 1..Len(request_queue_'[o]) :
              request_queue_'[o][k].granted_ /\ request_queue_'[o][k].txn_id_ # t2}}

\* the mode t2 held on o before the step, if the step upgrades it
OldLock(o, t2) ==
  {request_queue_[o][i].lock_mode_ :
     i \in {k \in 1..Len(request_queue_[o]) :
              request_queue_[o][k].granted_ /\ request_queue_[o][k].txn_id_ = t2}}

\* a request of t is granted by the step (at once, or after a wait)
GrantedBy(o, t) ==
  /\ HasGranted(request_queue_'[o], t)
  /\ \/ ~HasGranted(request_queue_[o], t)
     \/ request_queue_[o][PosOf(request_queue_[o], t)].lock_mode_
          # request_queue_'[o][PosOf(request_queue_'[o], t)].lock_mode_

\* the granted request entered the queue as an upgrade
UpgradeGrant(o, t) == HasGranted(request_queue_[o], t) \/ wait_upgrade[t]

C10_FifoStep ==
  \A o \in AllObjs : \A t1, t2 \in AllTxns :
    (GrantedBy(o, t2) /\ Before(arrival'[o], t1, t2) /\ ~HasGranted(request_queue_'[o], t1))
      => LET m1 == request_queue_'[o][PosOf(request_queue_'[o], t1)].lock_mode_
             m2 == request_queue_'[o][PosOf(request_queue_'[o], t2)].lock_mode_
         IN \/ \E h \in HeldAtGrant(o, t2) :
                 ~MatrixCompatible(h, m1) /\ MatrixCompatible(h, m2)
            \/ \E h \in OldLock(o, t2) : ~MatrixCompatible(h, m1)

C10_PlainFifoStep ==
  \A o \in AllObjs : \A t1, t2 \in AllTxns :
    (GrantedBy(o, t2) /\ ~UpgradeGrant(o, t2) /\ Before(arrival'[o], t1, t2))
      => HasGranted(request_queue_'[o], t1)

Induced(g, S) == [t \in AllTxns |-> IF t \in S THEN g[t] \cap S ELSE {}]

\* the transactions reached from those of S along at most n edges of g
RECURSIVE ReachWithin(_, _, _)
ReachWithin(g, S, n) ==
  IF n = 0 THEN S
  ELSE LET R == ReachWithin(g, S, n - 1)
       IN R \cup UNION {g[t] : t \in R}

\* t lies on a cycle of g
OnCycle(g, t) == t \in ReachWithin(g, g[t], Cardinality(AllTxns))

Live == {t \in AllTxns : txn_state[t] # "ABORTED"}

\* C5: the transaction the detector has just aborted lies on a cycle of the
\* graph built in the pass, and no member of that cycle has a larger id.
C5_VictimYoungestOfCycle ==
  last_victim.txn_id # INVALID_TXN_ID =>
    OnCycle(Induced(built_graph, {t \in AllTxns : t <= last_victim.txn_id}),
            last_victim.txn_id)

C6_PassEndStep ==
  (det_pc = "cycles" /\ det_pc' = "sleep") =>
    \A t \in AllTxns : ~OnCycle(Induced(built_graph, Live), t)

\* C6: when a pass of the detector ends, every cycle of the graph the pass
\* built from the queues has a member whose state is ABORTED.
C6_EveryCycleBroken == [][C6_PassEndStep]_vars

\* the pass built a graph with a cycle, aborted a victim and found no cycle left
C6_Witness ==
  /\ det_pc = "cycles"
  /\ last_victim # NoVictim
  /\ \E t \in AllTxns : OnCycle(built_graph, t)
  /\ \E t \in AllTxns : OnCycle(Induced(built_graph, AllTxns \ {last_victim.txn_id}), t)
  /\ ~HasCycle(waits_for_, txn_set_).found

\* transaction 1 holds X on table 0 and waits for X on table 1; transaction 2
\* holds X on table 1 and waits for X on table 0
TwoDeadlock ==
  /\ request_queue_[Tbl(0)] = <<[txn_id_ |-> 1, lock_mode_ |-> "X", granted_ |-> TRUE],
                                 [txn_id_ |-> 2, lock_mode_ |-> "X", granted_ |-> FALSE]>>
  /\ request_queue_[Tbl(1)] = <<[txn_id_ |-> 2, lock_mode_ |-> "X", granted_ |-> TRUE],
                                 [txn_id_ |-> 1, lock_mode_ |-> "X", granted_ |-> FALSE]>>

C7_PassStep ==
  (det_pc = "cycles" /\ det_pc' = "sleep" /\ 2 \in built_graph[1] /\ 1 \in built_graph[2])
    => txn_state[2] = "ABORTED" /\ txn_state[1] # "ABORTED"

\* C7: in the two-transaction deadlock, the pass that builds the graph of the
\* deadlock ends with transaction 2 ABORTED and transaction 1 not; the blocked
\* call of transaction 2 returns false; and once the lock of transaction 2 on
\* table 1 is released, the request of transaction 1 on table 1 is granted.
C7_TwoTxnDeadlockResolved ==
  /\ [][C7_PassStep]_vars
  /\ TwoDeadlock ~> (txn_state[2] = "ABORTED" /\ waiting[2] = NoObj /\ last_result[2] = "false")
  /\ (txn_state[2] = "ABORTED" /\ ~HasGranted(request_queue_[Tbl(1)], 2)
        /\ HasUngranted(request_queue_[Tbl(1)], 1))
       ~> HasGranted(request_queue_[Tbl(1)], 1)

\* after the deadlock: transaction 2 is ABORTED, its call returned false, its
\* lock on table 1 is released, and transaction 1 holds both tables
C7_Witness ==
  /\ txn_state[2] = "ABORTED"
  /\ last_result[1] = "true"
  /\ request_queue_[Tbl(0)] = <<[txn_id_ |-> 1, lock_mode_ |-> "X", granted_ |-> TRUE]>>
  /\ request_queue_[Tbl(1)] = <<[txn_id_ |-> 1, lock_mode_ |-> "X", granted_ |-> TRUE]>>
  /\ txn_state[1] = "GROWING"

(***************************************************************************)
(* Properties of the B+ tree latches.                                      *)
(***************************************************************************)
\* the thread is in the descent of a lookup: it has taken the root latch and
\* has not yet latched the leaf of its key
InDescent(th) ==
  \/ rd_pc[th] \in {"find", "root", "child"}
  \/ rd_pc[th] = "at" /\ ~IsLeafPage(pages[rd_page[th]])

\* C3: a thread in the descent of GetValue or Begin(key) holds at every instant
\* the root latch or the read latch of a page: the root page is latched before
\* the root latch is released and a child before its parent is unlatched.
C3_DescentHoldsLatch ==
  \A th \in Threads :
    InDescent(th) => (root_rlock[th] > 0 \/ rlatch[th] # {})

\* C4: a thread whose GetValue has returned (key found, key absent, empty
\* tree) holds neither the root latch nor a page latch.
C4_NoLatchAfterReturn ==
  \A th \in Threads :
    (rd_pc[th] = "idle" /\ rd_op[th] = "GetValue" /\ rd_result[th] \in {"true", "false"})
      => (root_rlock[th] = 0 /\ rlatch[th] = {})

(***************************************************************************)
(* Properties of row locks and table locks.                                *)
(***************************************************************************)
\* t has a granted request on o whose mode is one of modes
HoldsIn(t, o, modes) ==
  \E i \in 1..Len(request_queue_[o]) :
    /\ request_queue_[o][i].txn_id_ = t
    /\ request_queue_[o][i].granted_
    /\ request_queue_[o][i].lock_mode_ \in modes

\* the table lock that the row lock of t on rid asks for is granted
RowCovered(t, rid) ==
  /\ HoldsIn(t, Row(rid), {"X"}) => HoldsIn(t, Tbl(RowTable(rid)), {"X", "IX", "SIX"})
  /\ HoldsIn(t, Row(rid), {"S"}) => HoldsIn(t, Tbl(RowTable(rid)), LockModes)

TableUpgradePending(t, oid) == waiting[t] = Tbl(oid) /\ wait_upgrade[t]

C12_DuplicateInsertRefused ==
  [][\A key \in DupKeys : \A value \in DupValues(key) :
       (Insert(key, value, MaxDupPageId) /\ key \in StoredKeys(pages))
         => (~wr_call'.result /\ pages' = pages /\ root_page_id_' = root_page_id_)]_vars

(***************************************************************************)
(* Properties of the index iterator.                                       *)
(***************************************************************************)
\* the loop over the iterator of Begin(key) has come to its end
WalkDone(th) == rd_pc[th] = "iter" /\ rd_op[th] = "Begin" /\ IsEnd(th)

\* the stored keys from key on, in ascending order
KeysFrom(key) == SortedSeq({k \in StoredKeys(pages) : k >= key})

\* C13: for every key, stored or not, the loop from Begin(key) to the end has
\* returned exactly the stored keys that are greater than or equal to the key,
\* in ascending order.
C13_BeginYieldsKeysFrom ==
  \A th \in Threads : WalkDone(th) => rd_seen[th] = KeysFrom(rd_key[th])

\* the thread holds an iterator on a leaf
HasIterator(th) == rd_pc[th] \in {"iter", "seen", "move"}

\* C14 as the claim states it: at every instant an iterator holds a read latch
\* on at most one leaf page, also while operator++ moves to the next leaf.
C14_IteratorOneLatch ==
  \A th \in Threads : HasIterator(th) => Cardinality(rlatch[th]) <= 1

\* C14, amended: outside operator++ the iterator holds the read latch of its
\* leaf and no other; inside operator++, between the RLatch of the next leaf
\* and the RUnlatch of the old one, it holds these two and no other.
C14_IteratorLatchHandOver ==
  \A th \in Threads :
    /\ rd_pc[th] \in {"iter", "seen"} => rlatch[th] = {rd_page[th]}
    /\ rd_pc[th] = "move"
         => /\ rlatch[th] = {rd_page[th], pages[rd_page[th]].next_page_id_}
            /\ Cardinality(rlatch[th]) = 2

\* operator++ has latched the next leaf and not yet unlatched the old one
C14_Witness ==
  \E th \in Threads :
    /\ rd_pc[th] = "move"
    /\ rd_page[th] \in rlatch[th]
    /\ pages[rd_page[th]].next_page_id_ \in rlatch[th]

(***************************************************************************)
(* Properties of the contents of the B+ tree.                              *)
(***************************************************************************)
\* what GetValue(key) returns on the tree of the state: the value of the first
\* pair of the key in the leaf the descent ends at, or none
GetValueCall(key) ==
  IF root_page_id_ = INVALID_PAGE_ID THEN {}
  ELSE LET p == pages[FindLeafPage(pages, root_page_id_, key)]
           index == LeafScan(p, key, 0)
       IN IF index < p.size_ /\ ArrayAt(p, index).first = key
            THEN {ArrayAt(p, index).second} ELSE {}

\* C15: after any sequence of Insert and Remove calls GetValue(k) returns true
\* with the value v exactly when the latest successful Insert(k, v) has not been
\* followed by a Remove(k), and false otherwise.
C15_LookupFollowsHistory ==
  \A key \in Keys : GetValueCall(key) = latest[key].value

\* every key that was inserted has been removed since, as many times as an
\* Insert of it returned true
AllRemoved == wr_call.op = "Remove" /\ \A key \in Keys : latest[key].pending = 0

\* C16: when every key that was inserted has been removed, the tree is empty:
\* root_page_id_ is INVALID_PAGE_ID and no page of the tree is left.
C16_EmptyAfterRemovingAll ==
  AllRemoved => (root_page_id_ = INVALID_PAGE_ID /\ DOMAIN pages = {})

(***************************************************************************)
(* Properties of the shape of the B+ tree.                                 *)
(***************************************************************************)
\* ceil(n / 2)
CeilHalf(n) == (n + 1) \div 2

\* the last call of the writer has returned
AfterCall == wr_call.op \in {"Insert", "Remove"}

\* C17: after every Insert or Remove a leaf that is not the root holds between
\* ceil((max_size - 1) / 2) and max_size - 1 entries, an internal page that is
\* not the root between ceil(max_size / 2) and max_size children, a root leaf
\* at most max_size - 1 entries and an internal root at least 2 children.
C17_PageSizes ==
  AfterCall =>
    \A id \in DOMAIN pages :
      LET p == pages[id]
      IN IF IsLeafPage(p)
           THEN /\ p.size_ <= p.max_size_ - 1
                /\ id # root_page_id_ => p.size_ >= CeilHalf(p.max_size_ - 1)
           ELSE IF id = root_page_id_ THEN p.size_ >= 2
                ELSE p.size_ >= CeilHalf(p.max_size_) /\ p.size_ <= p.max_size_

\* a Remove has left a tree of three levels in which an internal page below the
\* root holds its minimum of children and a leaf its minimum of entries
C17_Witness ==
  /\ wr_call.op = "Remove"
  /\ root_page_id_ # INVALID_PAGE_ID
  /\ ~IsLeafPage(pages[root_page_id_])
  /\ \E id \in DOMAIN pages :
       /\ ~IsLeafPage(pages[id]) /\ id # root_page_id_
       /\ pages[id].size_ = CeilHalf(pages[id].max_size_)
  /\ \E id \in LeafIds(pages) : pages[id].size_ = CeilHalf(pages[id].max_size_ - 1)

\* the depths below the page id at which the leaves of its subtree lie
RECURSIVE LeafDepths(_, _)
LeafDepths(pgs, id) ==
  IF IsLeafPage(pgs[id]) THEN {0}
  ELSE {d + 1 : d \in UNION {LeafDepths(pgs, pgs[id].array_[i].second) : i \in 1..pgs[id].size_}}

\* C20: after every Insert or Remove all leaves of the tree lie at the same
\* depth below the root.
C20_LeavesAtOneDepth ==
  (AfterCall /\ root_page_id_ # INVALID_PAGE_ID)
    => Cardinality(LeafDepths(pages, root_page_id_)) = 1

\* a Remove has left a tree whose leaves lie two levels below the root
C20_Witness ==
  /\ wr_call.op = "Remove"
  /\ root_page_id_ # INVALID_PAGE_ID
  /\ \E d \in LeafDepths(pages, root_page_id_) : d >= 2

\* the keys stored in the leaves of the subtree of the page id
RECURSIVE SubtreeKeys(_, _)
SubtreeKeys(pgs, id) ==
  IF IsLeafPage(pgs[id]) THEN {pgs[id].array_[i].first : i \in 1..pgs[id].size_}
  ELSE UNION {SubtreeKeys(pgs, pgs[id].array_[i].second) : i \in 1..pgs[id].size_}

InternalIds(pgs) == (DOMAIN pgs) \ LeafIds(pgs)

\* C18: after every Insert or Remove, for every internal page and every index
\* i >= 1, every key stored in the subtree of child i - 1 is smaller than
\* key[i] and every key stored in the subtree of child i is greater than or
\* equal to key[i].
C18_SeparatorsBoundSubtrees ==
  AfterCall =>
    \A id \in InternalIds(pages) : \A i \in 1..(pages[id].size_ - 1) :
      /\ \A k \in SubtreeKeys(pages, ValueAt(pages[id], i - 1)) : k < KeyAt(pages[id], i)
      /\ \A k \in SubtreeKeys(pages, ValueAt(pages[id], i)) : k >= KeyAt(pages[id], i)

\* the leaves of the subtree of the page id
RECURSIVE SubtreeLeaves(_, _)
SubtreeLeaves(pgs, id) ==
  IF IsLeafPage(pgs[id]) THEN {id}
  ELSE UNION {SubtreeLeaves(pgs, pgs[id].array_[i].second) : i \in 1..pgs[id].size_}

RECURSIVE LeftmostLeaf(_, _)
LeftmostLeaf(pgs, id) ==
  IF IsLeafPage(pgs[id]) THEN id ELSE LeftmostLeaf(pgs, ValueAt(pgs[id], 0))

\* the page ids that following next_page_id_ from the page id visits, at most
\* steps of them; a page id that is no page of the tree ends the walk
RECURSIVE LeafChain(_, _, _)
LeafChain(pgs, id, steps) ==
  IF id = INVALID_PAGE_ID \/ steps = 0 THEN <<>>
  ELSE IF id \notin DOMAIN pgs THEN <<id>>
  ELSE <<id>> \o LeafChain(pgs, pgs[id].next_page_id_, steps - 1)

\* the keys of the leaves of a chain, in the order of the chain
RECURSIVE ChainKeys(_, _)
ChainKeys(pgs, chain) ==
  IF chain = <<>> THEN <<>>
  ELSE [i \in 1..pgs[Head(chain)].size_ |-> pgs[Head(chain)].array_[i].first]
         \o ChainKeys(pgs, Tail(chain))

\* C19: after every Insert or Remove that leaves a tree, following
\* next_page_id_ from the leftmost leaf visits every leaf of the tree exactly
\* once and ends at INVALID_PAGE_ID, and the keys of the leaves in that order
\* are every stored key exactly once in ascending order.
C19_LeafChainInKeyOrder ==
  (AfterCall /\ root_page_id_ # INVALID_PAGE_ID) =>
    LET leaves == SubtreeLeaves(pages, root_page_id_)
        chain == LeafChain(pages, LeftmostLeaf(pages, root_page_id_), Cardinality(leaves) + 1)
    IN /\ Len(chain) = Cardinality(leaves)
       /\ {chain[i] : i \in 1..Len(chain)} = leaves
       /\ LET keys == ChainKeys(pages, chain)
          IN /\ \A i \in 1..(Len(keys) - 1) : keys[i] < keys[i + 1]
             /\ {keys[i] : i \in 1..Len(keys)} = StoredKeys(pages)

(***************************************************************************)
(* Properties of the phases of a transaction.                              *)
(***************************************************************************)
\* the step leaves the state and the last outcome of every transaction but t
\* as they are, as every call of t does
StepOf(t) ==
  \A u \in AllTxns \ {t} : txn_state'[u] = txn_state[u] /\ last_result'[u] = last_result[u]

\* the step is a LockTable or LockRow call of t
LockCall(t) ==
  /\ StepOf(t)
  /\ \E m \in LockModes : LockTable(t, m, 0) \/ LockRow(t, m, 0, 0)

\* the step grants nothing and adds no request
NothingGranted ==
  /\ request_queue_' = request_queue_
  /\ table_lock_set' = table_lock_set
  /\ row_lock_set' = row_lock_set
  /\ waiting' = waiting

\* t runs under Repeatable-Read and an unlock has released an S or X lock of it
PastFirstRelease(t) == isolation[t] = "REPEATABLE_READ" /\ unlocked_sx[t]

\* C24 as the claim states it: under Repeatable-Read, once UnlockTable or
\* UnlockRow has released an S or X lock of a transaction, every later LockTable
\* or LockRow call of the transaction sets it to ABORTED, signals
\* LOCK_ON_SHRINKING and grants nothing.
C24_LockAfterReleaseSignalsShrinking ==
  [][\A t \in PhaseTxns :
       (PastFirstRelease(t) /\ LockCall(t)) =>
          /\ txn_state'[t] = "ABORTED"
          /\ last_result'[t] = "LOCK_ON_SHRINKING"
          /\ NothingGranted]_vars

\* the step is a LockRow call of t for an intention lock
IntentionRowCall(t) == \E m \in {"IS", "IX", "SIX"} : LockRow(t, m, 0, 0)

C24_ReleasedState ==
  \A t \in PhaseTxns : PastFirstRelease(t) => txn_state[t] # "GROWING"

C24_LockStep ==
  \A t \in PhaseTxns :
    (PastFirstRelease(t) /\ LockCall(t)) =>
       /\ NothingGranted
       /\ txn_state[t] = "SHRINKING" =>
            /\ txn_state'[t] = "ABORTED"
            /\ last_result'[t] = IF IntentionRowCall(t) THEN "ATTEMPTED_INTENTION_LOCK_ON_ROW"
                                 ELSE "LOCK_ON_SHRINKING"
       /\ txn_state[t] # "SHRINKING" =>
            /\ txn_state'[t] = txn_state[t]
            /\ last_result'[t] = "exception"

\* C24, amended: under Repeatable-Read, once an unlock has released an S or X
\* lock of a transaction, the transaction is never GROWING again and every
\* later LockTable or LockRow call of it grants nothing and adds no request. A
\* call made while the transaction is SHRINKING sets it to ABORTED and signals
\* LOCK_ON_SHRINKING, except a LockRow call for IS, IX or SIX, which signals
\* ATTEMPTED_INTENTION_LOCK_ON_ROW; a call made after the transaction was
\* committed or aborted throws and leaves the state as it is.
C24_NoLockAfterRelease == [](C24_ReleasedState) /\ [][C24_LockStep]_vars

\* a Repeatable-Read transaction that released an S or X lock has asked for a
\* lock again and was aborted for it, while the other transaction holds a lock
C24_Witness ==
  \E t, u \in PhaseTxns :
    /\ t # u
    /\ PastFirstRelease(t)
    /\ txn_state[t] = "ABORTED"
    /\ last_result[t] = "LOCK_ON_SHRINKING"
    /\ \E m \in LockModes : HoldsIn(u, Tbl(0), {m})

PhaseObjs == {Tbl(0), Row(0)}

\* the step is the call of t that asks for mode m on o
LockCallOn(t, m, o) ==
  /\ StepOf(t)
  /\ IF IsTable(o) THEN LockTable(t, m, 0) ELSE LockRow(t, m, 0, 0)

\* the outcomes of a call that the checks of step 1 reject
StepOneOutcomes ==
  {"exception", "LOCK_SHARED_ON_READ_UNCOMMITTED", "LOCK_ON_SHRINKING",
   "ATTEMPTED_INTENTION_LOCK_ON_ROW", "TABLE_LOCK_NOT_PRESENT"}

\* the mode of the granted request of t on o
HeldMode(t, o) == request_queue_[o][PosOf(request_queue_[o], t)].lock_mode_

\* the transactions whose upgrade on o is pending
PendingUpgrades(o) == {u \in AllTxns : waiting[u] = o /\ wait_upgrade[u]}

\* the step is a call of t that asks for a mode other than the one it holds on o
\* and that the checks of step 1 let through
UpgradeCall(t, m, o) ==
  /\ HasGranted(request_queue_[o], t)
  /\ HeldMode(t, o) # m
  /\ LockCallOn(t, m, o)
  /\ last_result'[t] \notin StepOneOutcomes

C26_OneUpgrade ==
  \A o \in AllObjs :
    /\ Cardinality(PendingUpgrades(o)) <= 1
    /\ \A u \in PendingUpgrades(o) : upgrading_[o] = u

C26_ConflictStep ==
  \A o \in PhaseObjs : PendingUpgrades(o) # {} =>
   \A t \in PhaseTxns \ PendingUpgrades(o), m \in LockModes : UpgradeCall(t, m, o) =>
       /\ txn_state'[t] = "ABORTED"
       /\ last_result'[t] = "UPGRADE_CONFLICT"
       /\ NothingGranted
       /\ upgrading_' = upgrading_

UpgradeMatrix ==
  {<<"IS", "S">>, <<"IS", "X">>, <<"IS", "IX">>, <<"IS", "SIX">>,
   <<"S", "X">>, <<"S", "SIX">>, <<"IX", "X">>, <<"IX", "SIX">>, <<"SIX", "X">>}

\* after the step the request of t on o is one for mode m that took the place
\* of the held one: granted, or waiting as the upgrade of the queue
UpgradeUnderWay(t, m, o) ==
  LET q == request_queue_'[o]
  IN /\ Len(SelectSeq(q, LAMBDA r : r.txn_id_ = t)) = 1
     /\ q[PosOf(q, t)].lock_mode_ = m
     /\ txn_state'[t] = txn_state[t]
     /\ \/ q[PosOf(q, t)].granted_ /\ last_result'[t] = "true" /\ waiting'[t] = NoObj
        \/ /\ ~q[PosOf(q, t)].granted_
           /\ waiting'[t] = o /\ wait_upgrade'[t] /\ upgrading_'[o] = t

C27_UpgradeStep ==
  \A t \in PhaseTxns : (waiting[t] = NoObj /\ StepOf(t)) =>
    \A o \in PhaseObjs : HasGranted(request_queue_[o], t) =>
      \A m \in LockModes \ {HeldMode(t, o)} : LockCallOn(t, m, o) =>
         /\ request_queue_'[o] # request_queue_[o] => <<HeldMode(t, o), m>> \in UpgradeMatrix
         /\ (last_result'[t] \notin StepOneOutcomes /\ PendingUpgrades(o) \ {t} = {}) =>
              IF <<HeldMode(t, o), m>> \in UpgradeMatrix
                THEN UpgradeUnderWay(t, m, o)
                ELSE /\ txn_state'[t] = "ABORTED"
                     /\ last_result'[t] = "INCOMPATIBLE_UPGRADE"
                     /\ NothingGranted

WithoutWaiter(q, t) == SelectSeq(q, LAMBDA r : r.txn_id_ # t \/ r.granted_)

\* every ungranted request belongs to a call that is blocked on the queue
C28_WaitersBlocked ==
  \A o \in AllObjs : \A i \in 1..Len(request_queue_[o]) :
    ~request_queue_[o][i].granted_ => waiting[request_queue_[o][i].txn_id_] = o

C28_AbortedWakeStep ==
  \A t \in QTxns :
    (waiting[t] # NoObj /\ txn_state[t] = "ABORTED" /\ notified[t] /\ Wake(t)) =>
       LET o == waiting[t]
       IN /\ last_result'[t] = "false"
          /\ waiting'[t] = NoObj
          /\ request_queue_'[o] = WithoutWaiter(request_queue_[o], t)
          /\ \A u \in AllTxns \ {t} : waiting[u] = o => waiting'[u] = o /\ notified'[u]

\* C28: when a thread blocked in LockTable or LockRow is notified after its
\* transaction was set to ABORTED, its call returns false and its ungranted
\* request leaves the queue, and the threads blocked on the queue are notified;
\* no queue holds an ungranted request of a call that has returned.
C28_AbortedWaiterLeaves == [](C28_WaitersBlocked) /\ [][C28_AbortedWakeStep]_vars

\* the call of an aborted transaction has returned false, no queue holds a
\* request of it that is not granted, and a thread that was blocked on a queue
\* has been notified
C28_Witness ==
  \E t, u \in QTxns :
    /\ t # u
    /\ txn_state[t] = "ABORTED" /\ last_result[t] = "false" /\ waiting[t] = NoObj
    /\ \A o \in AllObjs : ~HasUngranted(request_queue_[o], t)
    /\ waiting[u] # NoObj /\ notified[u] /\ txn_state[u] # "ABORTED"

(***************************************************************************)
(* Properties of UnlockTable and UnlockRow.                                *)
(***************************************************************************)
\* the step is the call of t that unlocks o
UnlockCallOn(t, o) ==
  /\ StepOf(t)
  /\ IF IsTable(o) THEN UnlockTable(t, 0) ELSE UnlockRow(t, 0, 0)

\* the release of a lock of this mode ends the growing phase of t
EndsGrowing(t, mode) ==
  \/ isolation[t] = "REPEATABLE_READ" /\ mode \in {"S", "X"}
  \/ isolation[t] \in {"READ_COMMITTED", "READ_UNCOMMITTED"} /\ mode = "X"

C29_UnlockStep ==
  \A t \in PhaseTxns : (waiting[t] = NoObj /\ StepOf(t)) =>
    \A o \in PhaseObjs :
      (HasGranted(request_queue_[o], t) /\ UnlockCallOn(t, o)
         /\ request_queue_'[o] # request_queue_[o]) =>
        txn_state'[t] = IF txn_state[t] = "GROWING" /\ EndsGrowing(t, HeldMode(t, o))
                          THEN "SHRINKING"
                          ELSE txn_state[t]

HoldsRowOf(t, oid) ==
  \E m \in {"S", "X"} : \E rid \in row_lock_set[t][m] : RowTable(rid) = oid

C30_UnlockStep ==
  \A t \in PhaseTxns : (waiting[t] = NoObj /\ HoldsRowOf(t, 0) /\ StepOf(t)) =>
    (UnlockCallOn(t, Tbl(0)) =>
       /\ txn_state'[t] = "ABORTED"
       /\ last_result'[t] = "TABLE_UNLOCKED_BEFORE_UNLOCKING_ROWS"
       /\ HasGranted(request_queue_'[Tbl(0)], t)
       /\ request_queue_' = request_queue_
       /\ table_lock_set' = table_lock_set
       /\ row_lock_set' = row_lock_set)

\* C30: UnlockTable(T, t) called while T holds an S or X lock on a row of
\* table t sets T to ABORTED with TABLE_UNLOCKED_BEFORE_UNLOCKING_ROWS; the
\* queues and the lock sets are as before the call, and T's request on t is
\* granted still.
C30_TableUnlockedBeforeRows == [][C30_UnlockStep]_vars

\* the call has been refused: the transaction holds the row and the table
C30_Witness ==
  \E t \in PhaseTxns :
    /\ last_result[t] = "TABLE_UNLOCKED_BEFORE_UNLOCKING_ROWS"
    /\ txn_state[t] = "ABORTED"
    /\ HoldsRowOf(t, 0)
    /\ HasGranted(request_queue_[Tbl(0)], t)

(***************************************************************************)
(* Properties of the isolation-level checks of LockTable and LockRow.      *)
(***************************************************************************)
\* the isolation level of t does not allow mode m in the state t is in
IsolationForbids(t, m) ==
  \/ isolation[t] = "READ_UNCOMMITTED" /\ m \in {"S", "IS", "SIX"}
  \/ isolation[t] = "READ_UNCOMMITTED" /\ txn_state[t] = "SHRINKING" /\ m \in {"X", "IX"}
  \/ isolation[t] = "READ_COMMITTED" /\ txn_state[t] = "SHRINKING" /\ m \notin {"S", "IS"}

\* the step refuses the call of t: t is ABORTED after it, no request was added
\* and nothing was granted
RejectedAborted(t) ==
  /\ txn_state'[t] = "ABORTED"
  /\ NothingGranted
  /\ lock_map' = lock_map
  /\ last_result'[t] \notin {"true", "blocked"}

\* the outcomes of a call that the isolation-level checks refuse
IsolationOutcomes == {"LOCK_SHARED_ON_READ_UNCOMMITTED", "LOCK_ON_SHRINKING"}

C31_AnyStateStep ==
  \A t \in PhaseTxns : (waiting[t] = NoObj /\ StepOf(t)) =>
    \A o \in PhaseObjs, m \in LockModes : LockCallOn(t, m, o) =>
       /\ IsolationForbids(t, m) => RejectedAborted(t)
       /\ (isolation[t] = "READ_COMMITTED" /\ txn_state[t] = "SHRINKING" /\ m \in {"S", "IS"})
            => last_result'[t] \notin IsolationOutcomes
       /\ last_result'[t] \notin {"true", "blocked"} => RejectedAborted(t)

\* C31 as the claim states it: under Read-Uncommitted a call for S, IS or SIX
\* is rejected in every state of the transaction and a call for X or IX when
\* the transaction is SHRINKING; under Read-Committed the call of a SHRINKING
\* transaction passes the isolation-level checks for S and IS and is rejected
\* for every other mode; every rejection sets the transaction to ABORTED and
\* adds no request to a queue.
C31_IsolationAdmissionAnyState == [][C31_AnyStateStep]_vars

C31_ActiveStep ==
  \A t \in PhaseTxns : (waiting[t] = NoObj /\ StepOf(t)) =>
    \A o \in PhaseObjs, m \in LockModes : LockCallOn(t, m, o) =>
       IF txn_state[t] \in {"COMMITTED", "ABORTED"}
         THEN /\ txn_state'[t] = txn_state[t]
              /\ last_result'[t] = "exception"
              /\ NothingGranted
              /\ lock_map' = lock_map
         ELSE /\ IsolationForbids(t, m) =>
                   /\ RejectedAborted(t)
                   /\ last_result'[t] \in IsolationOutcomes \cup {"ATTEMPTED_INTENTION_LOCK_ON_ROW"}
              /\ (isolation[t] = "READ_COMMITTED" /\ txn_state[t] = "SHRINKING"
                     /\ m \in {"S", "IS"})
                   => last_result'[t] \notin IsolationOutcomes
              /\ last_result'[t] \notin {"true", "blocked"} => RejectedAborted(t)

\* C31, amended: for a transaction that is GROWING or SHRINKING, under
\* Read-Uncommitted a call for S, IS or SIX is rejected in both states and a
\* call for X or IX when the transaction is SHRINKING; under Read-Committed the
\* call of a SHRINKING transaction passes the isolation-level checks for S and
\* IS and is rejected for every other mode; every rejection of such a call sets
\* the transaction to ABORTED and adds no request to a queue. A call of a
\* COMMITTED or ABORTED transaction is rejected before the isolation level is
\* looked at: it throws, adds no request and leaves the state as it is.
C31_IsolationAdmission == [][C31_ActiveStep]_vars

\* a Read-Committed transaction that released an X lock was granted S on the
\* table while it was SHRINKING, and its next call, for a mode other than S and
\* IS, was rejected with LOCK_ON_SHRINKING
C31_Witness ==
  \E t \in PhaseTxns :
    /\ isolation[t] = "READ_COMMITTED" /\ unlocked_sx[t]
    /\ HoldsIn(t, Tbl(0), {"S"})
    /\ txn_state[t] = "ABORTED" /\ last_result[t] = "LOCK_ON_SHRINKING"

(***************************************************************************)
(* Properties of lookups that run beside Insert and Remove calls.          *)
(***************************************************************************)
\* the step is the return of the GetValue call of th from the leaf it reached
GetValueReturns(th) ==
  /\ rd_pc[th] = "at" /\ rd_op[th] = "GetValue" /\ rd_pc'[th] = "idle"

\* C32: a GetValue(k) for a key k that was inserted before the lookup started
\* and is not removed before it returns, returns true, whatever Insert and
\* Remove calls of other keys run between its steps.  (In ConSpec no Insert and
\* no Remove of k runs while the lookup of k is under way, so k is stored from
\* the first step of the lookup to its return if it is stored at the return.)
C32_LookupFindsStoredKey ==
  [][\A th \in Threads :
       (GetValueReturns(th) /\ rd_key[th] \in StoredKeys(pages))
          => rd_result'[th] = "true"]_vars

(***************************************************************************)
(* Properties of the waits for latches.                                    *)
(***************************************************************************)
\* the writer is blocked in the WLatch of a page that thread th holds
\* read-latched, and th is blocked in the RLatch of a page the writer holds
\* write-latched
LatchCycle(th) ==
  /\ wr_pc = "sibling"
  /\ wr_wait \in rlatch[th]
  /\ WantsLatch(th) \cap wlatch # {}

\* C33: no execution of GetValue, Insert, Remove and iterator advance reaches a
\* state in which threads wait for ever for each other's page latches or for
\* the root latch; an iterator that holds leaf L and asks for its right
\* sibling R is never blocked against a Remove that holds R and asks for its
\* left sibling L.
C33_NoLatchCycle == \A th \in Threads : ~LatchCycle(th)

(***************************************************************************)
(* The upgrading_ marker of a queue.                                       *)
(***************************************************************************)
UpgradeWaiters(o) ==
  {request_queue_[o][k].txn_id_ :
     k \in {j \in 1..Len(request_queue_[o]) : ~request_queue_[o][j].granted_}}

\* C34: whenever upgrading_ of a queue names a transaction, that transaction
\* is blocked in an upgrade on that queue and has an ungranted request in it;
\* an upgrade that has ended, by the grant or by the abort of the waiter,
\* leaves INVALID_TXN_ID in upgrading_
C34_MarkerNamesWaiter ==
  \A o \in AllObjs : upgrading_[o] # INVALID_TXN_ID =>
     /\ upgrading_[o] \in UpgradeWaiters(o)
     /\ waiting[upgrading_[o]] = o
     /\ wait_upgrade[upgrading_[o]]

(***************************************************************************)
(* The separator keys and the first keys of the subtrees.                  *)
(***************************************************************************)
\* the first key of the leftmost leaf of the subtree of the page id
FirstKeyBelow(pgs, id) == KeyAt(pgs[LeftmostLeaf(pgs, id)], 0)

\* the last key of the rightmost leaf of the subtree of the page id
RECURSIVE RightmostLeaf(_, _)
RightmostLeaf(pgs, id) ==
  IF IsLeafPage(pgs[id]) THEN id ELSE RightmostLeaf(pgs, ValueAt(pgs[id], pgs[id].size_ - 1))

LastKeyBelow(pgs, id) ==
  KeyAt(pgs[RightmostLeaf(pgs, id)], pgs[RightmostLeaf(pgs, id)].size_ - 1)

LeafSplit(left, new) ==
  /\ wr_call'.op = "Insert"
  /\ root_page_id_ # INVALID_PAGE_ID
  /\ new \in LeafIds(pages') \ DOMAIN pages
  /\ left \in LeafIds(pages)
  /\ pages'[left].next_page_id_ = new

\* C37 as the claim states it: when Insert splits a leaf, the leaf that was
\* split keeps ceil((max_size + 1) / 2) entries and the new right sibling gets
\* the rest of the max_size entries.
C37_LeftKeepsUpperHalf ==
  [][\A new \in DOMAIN pages' \ DOMAIN pages : \A left \in DOMAIN pages :
       LeafSplit(left, new) =>
         /\ pages'[left].size_ = CeilHalf(pages'[left].max_size_ + 1)
         /\ pages'[new].size_ = pages'[left].max_size_ - pages'[left].size_]_vars

\* C37, amended: when Insert splits a leaf, the leaf that was split keeps
\* ceil((max_size - 1) / 2) entries, its minimum, and the new right sibling
\* gets the rest of the max_size entries, ceil(max_size / 2).
C37_LeftKeepsMinSize ==
  [][\A new \in DOMAIN pages' \ DOMAIN pages : \A left \in DOMAIN pages :
       LeafSplit(left, new) =>
         /\ pages'[left].size_ = CeilHalf(pages'[left].max_size_ - 1)
         /\ pages'[new].size_ = CeilHalf(pages'[left].max_size_)]_vars

\* an Insert has just split a root leaf of max_size 3 or of max_size 4: the
\* tree stores max_size keys in two leaves (with max_size - 1 keys in two
\* leaves no Insert into a leaf gives these sizes without a split)
C37_Witness ==
  /\ wr_call.op = "Insert"
  /\ root_page_id_ # INVALID_PAGE_ID
  /\ ~IsLeafPage(pages[root_page_id_])
  /\ pages[root_page_id_].size_ = 2
  /\ LET left == ValueAt(pages[root_page_id_], 0)
         new == ValueAt(pages[root_page_id_], 1)
     IN /\ IsLeafPage(pages[left]) /\ IsLeafPage(pages[new])
        /\ pages[left].next_page_id_ = new
        /\ pages[left].max_size_ = 4
        /\ pages[left].size_ = 2 /\ pages[new].size_ = 2
        /\ DOMAIN pages = {1, 2, 3}

(***************************************************************************)
(* Blocked calls return.                                                   *)
(***************************************************************************)
Blocked(t) == waiting[t] # NoObj

\* C39: under fair scheduling, when every holder releases its locks in the
\* end, every blocked LockTable call returns, and it returns with the lock
\* unless the transaction was aborted while it waited: no waiter stays blocked
\* behind an upgrade request, behind a granted X lock or behind a waiter that
\* was removed.
C39_BlockedCallReturns ==
  \A t \in QTxns :
    Blocked(t) ~> (~Blocked(t) /\ (last_result[t] = "true" \/ txn_state[t] = "ABORTED"))

\* a transaction is blocked on table 0 behind the upgrade request of another
\* transaction, after the blocked call of a third one, which the detector had
\* aborted, has left its queue and returned false
C39_Witness ==
  \E t \in QTxns :
    /\ Blocked(t) /\ waiting[t] = Tbl(0)
    /\ upgrading_[Tbl(0)] \notin {INVALID_TXN_ID, t}
    /\ \E u \in QTxns : txn_state[u] = "ABORTED" /\ last_result[u] = "false"

(***************************************************************************)
(* The lock sets of a transaction and the granted requests of the queues.  *)
(***************************************************************************)
\* object o is in the lock set of transaction t for mode m
HeldIn(t, o, m) ==
  IF IsTable(o) THEN o[2] \in table_lock_set[t][m]
  ELSE m \in {"S", "X"} /\ o[2] \in row_lock_set[t][m]

\* the queue of o holds a granted request of t with mode m
GrantedRequest(t, o, m) ==
  \E k \in 1..Len(request_queue_[o]) :
    /\ request_queue_[o][k].txn_id_ = t
    /\ request_queue_[o][k].granted_
    /\ request_queue_[o][k].lock_mode_ = m

\* the queue of o holds a request of t
HasRequest(t, o) == \E k \in 1..Len(request_queue_[o]) : request_queue_[o][k].txn_id_ = t

\* the step in which an upgrade of t on o to mode new returns true: the
\* blocked upgrade request is granted, or the request of another mode that
\* was granted before is replaced and granted in one call
UpgradeGranted(t, o, new) ==
  /\ waiting'[t] = NoObj
  /\ last_result'[t] = "true"
  /\ GrantedRequest(t, o, new)'
  /\ \/ waiting[t] = o /\ wait_upgrade[t]
     \/ waiting[t] = NoObj /\ \E old \in LockModes \ {new} : GrantedRequest(t, o, old)

\* the step in which the blocked upgrade of t on o returns false
UpgradeFailed(t, o) ==
  /\ waiting[t] = o /\ wait_upgrade[t]
  /\ waiting'[t] = NoObj
  /\ last_result'[t] = "false"

\* C40: while no lock-manager call of a transaction is in progress, an
\* object is in its lock set of mode m exactly if the queue of the object
\* holds a granted request of the transaction with mode m; when an upgrade
\* returns true the object is in the set of the new mode only, and when a
\* blocked upgrade returns false, its transaction aborted, the object is in
\* no set of the transaction and the queue holds no request of it
C40_LockSetsMatchQueues ==
  /\ [](\A t \in AllTxns : ~Blocked(t) =>
          \A o \in AllObjs, m \in LockModes : HeldIn(t, o, m) <=> GrantedRequest(t, o, m))
  /\ [][\A t \in AllTxns, o \in AllObjs, new \in LockModes :
          UpgradeGranted(t, o, new) => \A m \in LockModes : HeldIn(t, o, m)' <=> (m = new)]_vars
  /\ [][\A t \in AllTxns, o \in AllObjs :
          UpgradeFailed(t, o) => /\ txn_state'[t] = "ABORTED"
                                 /\ \A m \in LockModes : ~HeldIn(t, o, m)'
                                 /\ ~HasRequest(t, o)']_vars

\* transaction t has upgraded its lock on table 0 to X past the waiting
\* request of u, which came to the queue before the upgrade request, and holds
\* the table in its X set only; no call of t is in progress
C40_Witness ==
  \E t, u \in QTxns :
    /\ t # u /\ ~Blocked(t) /\ waiting[u] = Tbl(0)
    /\ arrival[Tbl(0)] = <<u, t>>
    /\ request_queue_[Tbl(0)][1].txn_id_ = t
    /\ GrantedRequest(t, Tbl(0), "X")
    /\ \A m \in LockModes : HeldIn(t, Tbl(0), m) <=> (m = "X")

(***************************************************************************)
(* The writes of Insert and Remove and the page latches.                   *)
(***************************************************************************)
\* C35: every write the last call of Insert or Remove made to a page of the
\* tree was made while the thread held the write latch of that page, the
\* writes of parent_page_id_ of the children an internal page takes over in
\* a split, a merge or a redistribution among them
C35_WritesUnderLatch == wr_unlatched = {}

(***************************************************************************)
(* Properties of the pins, the latches and the header page of the tree.    *)
(***************************************************************************)
\* the pins the caller of the tree holds: the header page, once
CallerPins == SetToBag({HEADER_PAGE_ID})

\* the thread is in no call of the tree and holds no iterator on a leaf
NoCallOpen(th) == rd_pc[th] = "idle"

\* the pages a thread that reads has pinned: the page it is at, and the next
\* leaf while operator++ moves to it
ReaderPins(th) ==
  IF rd_pc[th] \in {"root", "child", "at", "iter", "seen"} THEN SetToBag({rd_page[th]})
  ELSE IF rd_pc[th] = "move"
    THEN SetToBag({rd_page[th]}) (+) SetToBag({pages[rd_page[th]].next_page_id_})
  ELSE EmptyBag

\* C21: whenever Insert, Remove or GetValue has returned and no iterator is
\* alive, every page of the buffer pool has the pin count it had before the
\* call (the header page pinned once by the caller, every page of the tree
\* unpinned); inside a lookup and while an iterator lives the thread pins the
\* page it is at and nothing else.
C21_PinsRestored ==
  /\ NoCallOpen(PoolThread) => pin_count_ = CallerPins
  /\ pin_count_ = CallerPins (+) ReaderPins(PoolThread)

\* an iterator has walked over three keys and has been destroyed; the tree was
\* built by calls that split a leaf, an internal page and the root (every page
\* id is handed out) and then merged pages
C21_Witness ==
  /\ NoCallOpen(PoolThread)
  /\ rd_op[PoolThread] = "Begin" /\ rd_result[PoolThread] = "iterator"
  /\ Len(rd_seen[PoolThread]) > 2
  /\ wr_call.op = "Remove" /\ wr_delete.called
  /\ next_page_id_ = MaxPoolPage + 1

\* C22: at every DeletePage call of a Remove the thread holds no page latch and
\* not the root latch: the pages a merge or a root collapse has emptied are
\* handed back after the last latch of the call is released.
C22_DeleteAfterRelease == wr_delete.latched = {}

\* a Remove has handed pages back and has left a tree
C22_Witness ==
  /\ wr_call.op = "Remove"
  /\ wr_delete.called
  /\ root_page_id_ # INVALID_PAGE_ID

\* C23: a call that changes root_page_id_ calls InsertRecord when the tree
\* acquires a root for the first time and UpdateRecord every time after that,
\* also when an emptied tree acquires a root again.
C23_InsertRecordOnce ==
  [][root_page_id_' # root_page_id_ =>
       header_calls' = IF root_acquired THEN <<"UpdateRecord">> ELSE <<"InsertRecord">>]_vars

(***************************************************************************)
(* Insert when the buffer pool cannot allocate a page.                     *)
(***************************************************************************)
\* C38: when Insert has failed with OUT_OF_MEMORY (in StartNewTree, in Split
\* or in InsertIntoParent), the thread holds no latch of the tree and every
\* page has the pin count it had before the call.
C38_OutOfMemoryReleasesAll ==
  wr_pc = "thrown" => (wlatch = {} /\ pin_count_ = CallerPins)

=============================================================================
